---------------------------- MODULE Spec2Model ----------------------------
(***************************************************************************)
(* A model of the trading-signal core of the ainance repository: the       *)
(* rule-based scorer (simple-ml-service.py), the classifier-backed scorers *)
(* (ml-service/main.py, model/predict.py, TradingPredictor.predict) and    *)
(* the feature assembler (MarketDataProvider.calculate_features).          *)
(*                                                                         *)
(* Floating-point values are modelled as exact rationals extended with     *)
(* NaN, +inf and -inf, with the IEEE-754 rules for the special values.     *)
(***************************************************************************)
EXTENDS Integers, Sequences, FiniteSets, TLC

VARIABLES
    pc,               \* control location of the handler that is running
    call,             \* which handler or method the request went to
    request,          \* the request (or call arguments) being served
    response,         \* the outcome of the last completed call
    timestamp,        \* the batch timestamp taken by the running handler
    feature_i,        \* index of the feature record the scoring loop is at
    score,            \* simple-ml-service.py: the accumulated score
    reasoning_parts,  \* the clauses collected for the current record
    signals,          \* the signals built so far by the running handler
    predictions,      \* classifier paths: the result of model.predict(X)
    probabilities,    \* classifier paths: the result of model.predict_proba(X)
    MODEL,            \* ml-service/main.py: the global classifier, or None
    MODEL_INFO,       \* ml-service/main.py: the global model description
    predictor,        \* the TradingPredictor: model_data, model, feature_columns
    bars_dict,        \* MarketDataProvider: the bars fetched, symbol by symbol
    features_list     \* MarketDataProvider: the feature records assembled

vars == <<pc, call, request, response, timestamp, feature_i, score,
          reasoning_parts, signals, predictions, probabilities,
          MODEL, MODEL_INFO, predictor, bars_dict, features_list>>

\* What the rule-based service never touches.
classifierVars == <<predictions, probabilities, MODEL, MODEL_INFO, predictor>>
\* What only the market-data provider and its callers touch.
providerVars == <<bars_dict, features_list>>

(***************************************************************************)
(* Bounds of the model.                                                    *)
(***************************************************************************)
MaxBatch == 2
MaxTime == 2

(***************************************************************************)
(* Extended rationals: the model of Python/numpy floats.                   *)
(***************************************************************************)
AbsInt(a) == IF a < 0 THEN -a ELSE a

RECURSIVE GCD(_, _)
GCD(a, b) == IF b = 0 THEN a ELSE GCD(b, a % b)

Rat(n, d) ==
    LET s == IF d < 0 THEN -1 ELSE 1
        g == GCD(AbsInt(n), AbsInt(d))
    IN  [k |-> "fin", n |-> (s * n) \div g, d |-> (s * d) \div g]

Num(n) == Rat(n, 1)
NaN == [k |-> "nan", n |-> 0, d |-> 1]
PInf == [k |-> "pinf", n |-> 1, d |-> 1]
NInf == [k |-> "ninf", n |-> -1, d |-> 1]
\* Python's None, where a number, a model or a mapping is expected.
None == [k |-> "none", n |-> 0, d |-> 1]
\* None where a list of column names is expected.
NoColumns == <<"<None>">>

IsNaN(x) == x.k = "nan"
IsFinite(x) == x.k = "fin"
Sign(x) == IF x.n > 0 THEN 1 ELSE IF x.n < 0 THEN -1 ELSE 0

Neg(x) ==
    CASE x.k = "fin" -> Rat(-x.n, x.d)
      [] x.k = "pinf" -> NInf
      [] x.k = "ninf" -> PInf
      [] OTHER -> NaN

Add(x, y) ==
    CASE IsNaN(x) \/ IsNaN(y) -> NaN
      [] IsFinite(x) /\ IsFinite(y) ->
            LET g == GCD(x.d, y.d)
            IN  Rat(x.n * (y.d \div g) + y.n * (x.d \div g), (x.d \div g) * y.d)
      [] IsFinite(x) -> y
      [] IsFinite(y) -> x
      [] x.k = y.k -> x
      [] OTHER -> NaN

Sub(x, y) == Add(x, Neg(y))

Mul(x, y) ==
    CASE IsNaN(x) \/ IsNaN(y) -> NaN
      [] IsFinite(x) /\ IsFinite(y) ->
            LET g1 == GCD(AbsInt(x.n), y.d)
                g2 == GCD(AbsInt(y.n), x.d)
            IN  Rat((x.n \div g1) * (y.n \div g2), (x.d \div g2) * (y.d \div g1))
      [] Sign(x) * Sign(y) > 0 -> PInf
      [] Sign(x) * Sign(y) < 0 -> NInf
      [] OTHER -> NaN

\* IEEE division: x/0 is +-inf for x # 0 and NaN for 0/0 (numpy and pandas
\* do not raise), a finite value over an infinity is 0.
Div(x, y) ==
    CASE IsNaN(x) \/ IsNaN(y) -> NaN
      [] IsFinite(x) /\ IsFinite(y) ->
            IF y.n # 0
            THEN LET g1 == GCD(AbsInt(x.n), AbsInt(y.n))
                     g2 == GCD(x.d, y.d)
                 IN  Rat((x.n \div g1) * (y.d \div g2), (x.d \div g2) * (y.n \div g1))
            ELSE IF x.n > 0 THEN PInf
            ELSE IF x.n < 0 THEN NInf
            ELSE NaN
      [] IsFinite(x) -> Num(0)
      [] IsFinite(y) ->
            IF Sign(x) * (IF y.n < 0 THEN -1 ELSE 1) > 0 THEN PInf ELSE NInf
      [] OTHER -> NaN

\* Comparisons: every comparison with NaN is false.
Lt(x, y) ==
    /\ ~IsNaN(x) /\ ~IsNaN(y)
    /\ CASE IsFinite(x) /\ IsFinite(y) ->
              LET g == GCD(x.d, y.d)
              IN  x.n * (y.d \div g) < y.n * (x.d \div g)
         [] x.k = "ninf" -> y.k # "ninf"
         [] y.k = "pinf" -> x.k # "pinf"
         [] OTHER -> FALSE

Gt(x, y) == Lt(y, x)
Le(x, y) == ~IsNaN(x) /\ ~IsNaN(y) /\ ~Lt(y, x)
Ge(x, y) == Le(y, x)
NumEq(x, y) == ~IsNaN(x) /\ ~IsNaN(y) /\ x = y

\* Python's abs() and two-argument min(): min(a, b) is b if b < a else a.
AbsNum(x) == IF Lt(x, Num(0)) THEN Neg(x) ELSE x
MinNum(a, b) == IF Lt(b, a) THEN b ELSE a


(***************************************************************************)
(* Requests: raw feature records as they arrive in the JSON body.  A raw   *)
(* record is a function from the field names it carries to their values.   *)
(***************************************************************************)
Times == 1..MaxTime

RawFeature(symbol, rsi, macd_histogram, bb_position, ema_trend, volume_ratio, stochastic) ==
    [symbol |-> symbol, rsi |-> rsi, macd |-> Rat(-2, 100),
     macd_histogram |-> macd_histogram, bb_width |-> Rat(5, 100),
     bb_position |-> bb_position, ema_trend |-> ema_trend,
     volume_ratio |-> volume_ratio, stochastic |-> stochastic,
     price_change_1d |-> Rat(-2, 100), price_change_5d |-> Rat(10, 100),
     price_change_10d |-> Rat(15, 100), volatility_20 |-> Rat(4, 100),
     news_sentiment |-> Rat(-2, 10), price |-> Rat(25075, 100)]

\* The two records of ml-service/test_service.py.
AAPL_record ==
    [RawFeature("AAPL", Rat(555, 10), Rat(2, 100), Rat(6, 10), 1,
                Rat(12, 10), Num(60))
        EXCEPT !.macd = Rat(5, 100), !.bb_width = Rat(3, 100),
               !.price_change_1d = Rat(1, 100), !.price_change_5d = Rat(5, 100),
               !.price_change_10d = Rat(8, 100), !.volatility_20 = Rat(2, 100),
               !.news_sentiment = Rat(1, 10), !.price = Rat(17550, 100)]

TSLA_record ==
    RawFeature("TSLA", Num(75), Rat(-5, 100), Rat(85, 100), 0,
               Rat(25, 10), Num(80))

\* Values on, and on either side of, every threshold of the scorers; the
\* last rsi, bb_position and ema_trend values fail the request validation.
RsiValues == {Num(20), Num(30), Num(70), Num(75), Num(101)}
MacdHistValues == {Rat(-5, 100), Num(0), Rat(2, 100), NaN}
BbValues == {Rat(1, 10), Rat(2, 10), Rat(8, 10), Rat(85, 100), Rat(12, 10)}
VolumeValues == {Rat(4, 10), Rat(5, 10), Rat(15, 10), Rat(25, 10)}
StochValues == {Num(10), Num(20), Num(80), Num(90)}
EmaValues == {0, 1, 2}

GridFeatures ==
    {RawFeature("TSLA", r, m, b, e, v, s) :
        r \in RsiValues, m \in MacdHistValues, b \in BbValues,
        e \in EmaValues, v \in VolumeValues, s \in StochValues}

SampleFeatures == {AAPL_record, TSLA_record}

RECURSIVE SeqsUpTo(_, _)
SeqsUpTo(S, n) ==
    IF n = 0 THEN {<<>>}
    ELSE LET shorter == SeqsUpTo(S, n - 1)
         IN  shorter \cup {Append(q, x) : q \in shorter, x \in S}

SimpleRequests ==
    {[features |-> <<f>>, include_probabilities |-> FALSE] : f \in GridFeatures}
    \cup {[features |-> fs, include_probabilities |-> ip] :
            fs \in SeqsUpTo(SampleFeatures, MaxBatch), ip \in BOOLEAN}

(***************************************************************************)
(* MarketFeatures (pydantic): the request validation shared by             *)
(* simple-ml-service.py and ml-service/main.py.  Every field but           *)
(* news_sentiment and price is required; the Field bounds are checked.     *)
(***************************************************************************)
RequiredFields ==
    {"symbol", "rsi", "macd", "macd_histogram", "bb_width", "bb_position",
     "ema_trend", "volume_ratio", "stochastic", "price_change_1d",
     "price_change_5d", "price_change_10d", "volatility_20"}

InRange(x, lo, hi) == Ge(x, lo) /\ Le(x, hi)

MarketFeaturesDefaults(raw) ==
    [key \in DOMAIN raw \cup {"news_sentiment", "price"} |->
        IF key \in DOMAIN raw THEN raw[key]
        ELSE IF key = "news_sentiment" THEN Num(0) ELSE None]

MarketFeaturesValid(raw) ==
    /\ RequiredFields \subseteq DOMAIN raw
    /\ LET f == MarketFeaturesDefaults(raw)
       IN  /\ InRange(f.rsi, Num(0), Num(100))
           /\ Ge(f.bb_width, Num(0))
           /\ InRange(f.bb_position, Num(0), Num(1))
           /\ f.ema_trend \in 0..1
           /\ Ge(f.volume_ratio, Num(0))
           /\ InRange(f.stochastic, Num(0), Num(100))
           /\ Ge(f.volatility_20, Num(0))
           /\ InRange(f.news_sentiment, Num(-1), Num(1))

ParseFeatures(raws) == [j \in DOMAIN raws |-> MarketFeaturesDefaults(raws[j])]

RequestValid(req) ==
    \A j \in DOMAIN req.features : MarketFeaturesValid(req.features[j])

NoResponse == [outcome |-> "none", status |-> 0]
ValidationError == [outcome |-> "http", status |-> 422]
HTTPException(code, detail) == [outcome |-> "http", status |-> code, detail |-> detail]

(***************************************************************************)
(* simple-ml-service.py: predict, the rule-based scorer.                   *)
(***************************************************************************)
feature == request.features[feature_i]

\* The thresholds and weights of the rules.
RsiOverbought_inclusive(f) == Ge(f.rsi, Num(70))
RsiOverbought(f) == Gt(f.rsi, Num(70))
RsiOversold(f) == Lt(f.rsi, Num(30))
MacdBullish(f) == Gt(f.macd_histogram, Num(0))
MacdBearish(f) == Lt(f.macd_histogram, Num(0))
NearUpperBB(f) == Gt(f.bb_position, Rat(8, 10))
NearLowerBB(f) == Lt(f.bb_position, Rat(2, 10))
HighVolume(f) == Gt(f.volume_ratio, Rat(15, 10))
LowVolume(f) == Lt(f.volume_ratio, Rat(5, 10))
StochOverbought_inclusive(f) == Ge(f.stochastic, Num(80))
StochOverbought(f) == Gt(f.stochastic, Num(80))
StochOversold(f) == Lt(f.stochastic, Num(20))
EmaBullish(f) == f.ema_trend = 1

\* One rule of the scorer: if / elif / (else), each branch adding a weight
\* to the score and a clause to the reasoning.
Rule(here, next, cond1, w1, clause1, cond2, w2, clause2, elseClause) ==
    /\ pc = here
    /\ pc' = next
    /\ IF cond1
       THEN /\ score' = Add(score, w1)
            /\ reasoning_parts' = Append(reasoning_parts, clause1)
       ELSE IF cond2
       THEN /\ score' = Add(score, w2)
            /\ reasoning_parts' = Append(reasoning_parts, clause2)
       ELSE /\ score' = score
            /\ reasoning_parts' =
                  IF elseClause = "" THEN reasoning_parts
                  ELSE Append(reasoning_parts, elseClause)
    /\ UNCHANGED <<call, request, response, timestamp, feature_i, signals>>
    /\ UNCHANGED <<classifierVars, providerVars>>

SimpleReceive ==
    /\ pc = "idle"
    /\ call' = "simple-ml-service.predict"
    /\ UNCHANGED <<classifierVars, providerVars>>
    /\ \E req \in SimpleRequests, t \in Times :
          IF RequestValid(req)
          THEN /\ request' = [req EXCEPT !.features = ParseFeatures(req.features)]
               /\ timestamp' = t
               /\ signals' = <<>>
               /\ feature_i' = 1
               /\ pc' = "loop"
               /\ UNCHANGED <<response, score, reasoning_parts>>
          ELSE /\ request' = req
               /\ response' = ValidationError
               /\ pc' = "done"
               /\ UNCHANGED <<timestamp, feature_i, score, reasoning_parts, signals>>

\* The same step without the reset of the score.
SimpleNextFeature_keeps_score ==
    /\ pc = "loop"
    /\ feature_i <= Len(request.features)
    /\ score' = score
    /\ reasoning_parts' = <<>>
    /\ pc' = "rsi"
    /\ UNCHANGED <<call, request, response, timestamp, feature_i, signals>>
    /\ UNCHANGED <<classifierVars, providerVars>>

SimpleNextFeature ==
    /\ pc = "loop"
    /\ feature_i <= Len(request.features)
    /\ score' = Num(0)
    /\ reasoning_parts' = <<>>
    /\ pc' = "rsi"
    /\ UNCHANGED <<call, request, response, timestamp, feature_i, signals>>
    /\ UNCHANGED <<classifierVars, providerVars>>

SimpleRsi ==
    Rule("rsi", "macd",
         RsiOverbought(feature), Num(-2), "Overbought (RSI>70)",
         RsiOversold(feature), Num(2), "Oversold (RSI<30)", "Neutral RSI")

SimpleMacd ==
    Rule("macd", "bb",
         MacdBullish(feature), Num(1), "Bullish MACD",
         MacdBearish(feature), Num(-1), "Bearish MACD", "")

SimpleBollinger ==
    Rule("bb", "volume",
         NearUpperBB(feature), Num(-1), "Near upper BB",
         NearLowerBB(feature), Num(1), "Near lower BB", "")

SimpleVolume ==
    Rule("volume", "stoch",
         HighVolume(feature), Rat(1, 2), "High volume",
         LowVolume(feature), Rat(-1, 2), "Low volume", "")

SimpleStochastic ==
    Rule("stoch", "ema",
         StochOverbought(feature), Num(-1), "Overbought Stoch",
         StochOversold(feature), Num(1), "Oversold Stoch", "")

\* The EMA rule as an if without else: no clause and no weight for a
\* bearish trend.
SimpleEma_bullish_only ==
    Rule("ema", "convert",
         EmaBullish(feature), Rat(1, 2), "Bullish EMA",
         FALSE, Num(0), "", "")

SimpleEma ==
    Rule("ema", "convert",
         EmaBullish(feature), Rat(1, 2), "Bullish EMA",
         ~EmaBullish(feature), Rat(-1, 2), "Bearish EMA", "")

\* Convert score to action and confidence.
ScoreAction_exclusive(s) ==
    IF Gt(s, Num(2)) THEN "buy"
    ELSE IF Lt(s, Num(-2)) THEN "sell"
    ELSE "hold"

ScoreAction(s) ==
    IF Ge(s, Num(2)) THEN "buy"
    ELSE IF Le(s, Num(-2)) THEN "sell"
    ELSE "hold"

ScoreConfidence_uncapped(s) ==
    IF Ge(s, Num(2))
    THEN Add(Rat(6, 10), Mul(Sub(s, Num(2)), Rat(1, 10)))
    ELSE IF Le(s, Num(-2))
    THEN Add(Rat(6, 10), Mul(AbsNum(Add(s, Num(2))), Rat(1, 10)))
    ELSE Rat(6, 10)

ScoreConfidence(s) ==
    IF Ge(s, Num(2))
    THEN MinNum(Rat(9, 10), Add(Rat(6, 10), Mul(Sub(s, Num(2)), Rat(1, 10))))
    ELSE IF Le(s, Num(-2))
    THEN MinNum(Rat(9, 10), Add(Rat(6, 10), Mul(AbsNum(Add(s, Num(2))), Rat(1, 10))))
    ELSE Rat(6, 10)

RECURSIVE Join(_, _)
Join(sep, parts) ==
    IF parts = <<>> THEN ""
    ELSE IF Len(parts) = 1 THEN parts[1]
    ELSE parts[1] \o sep \o Join(sep, Tail(parts))

\* TradingSignal (pydantic): confidence must lie in [0, 1].
TradingSignalValid(sig) == InRange(sig.confidence, Num(0), Num(1))

SimpleConvert ==
    /\ pc = "convert"
    /\ LET signal == [symbol |-> feature.symbol,
                      action |-> ScoreAction(score),
                      confidence |-> ScoreConfidence(score),
                      price |-> feature.price,
                      reasoning |-> Join("; ", reasoning_parts),
                      probabilities |-> None,
                      timestamp |-> timestamp]
       IN  IF TradingSignalValid(signal)
           THEN /\ signals' = Append(signals, signal)
                /\ feature_i' = feature_i + 1
                /\ pc' = "loop"
                /\ UNCHANGED response
           ELSE /\ response' = HTTPException(500, "Prediction failed")
                /\ pc' = "done"
                /\ UNCHANGED <<signals, feature_i>>
    /\ UNCHANGED <<call, request, timestamp, score, reasoning_parts>>
    /\ UNCHANGED <<classifierVars, providerVars>>

SimpleReturn ==
    /\ pc = "loop"
    /\ feature_i > Len(request.features)
    /\ response' = [outcome |-> "http", status |-> 200, success |-> TRUE,
                    signals |-> signals,
                    model_version |-> "smart-indicator-2.0",
                    timestamp |-> timestamp]
    /\ pc' = "done"
    /\ UNCHANGED <<call, request, timestamp, feature_i, score, reasoning_parts, signals>>
    /\ UNCHANGED <<classifierVars, providerVars>>

\* The state before any request: nothing loaded, nothing served.
InitIdle ==
    /\ call = "none"
    /\ request = [features |-> <<>>, include_probabilities |-> FALSE]
    /\ response = NoResponse
    /\ timestamp = 0
    /\ feature_i = 0
    /\ score = Num(0)
    /\ reasoning_parts = <<>>
    /\ signals = <<>>
    /\ predictions = <<>>
    /\ probabilities = <<>>
    /\ MODEL = None
    /\ MODEL_INFO = <<>>
    /\ predictor = [model_data |-> None, model |-> None,
                    feature_columns |-> NoColumns]
    /\ bars_dict = <<>>
    /\ features_list = <<>>

InitRule == pc = "idle" /\ InitIdle

NextRule ==
    \/ SimpleReceive
    \/ SimpleNextFeature
    \/ SimpleRsi
    \/ SimpleMacd
    \/ SimpleBollinger
    \/ SimpleVolume
    \/ SimpleStochastic
    \/ SimpleEma
    \/ SimpleConvert
    \/ SimpleReturn

SpecRule == InitRule /\ [][NextRule]_vars


(***************************************************************************)
(* The classifier artifact.  The classifier itself (scikit-learn) is an    *)
(* external collaborator: its class list and the columns it was fitted on  *)
(* are data, what predict and predict_proba return for a row is chosen by  *)
(* the environment.                                                        *)
(***************************************************************************)
\* train_with_real_data.py, prepare_features: the ordered feature columns.
\* The list with a column of the training frame that no record carries.
TrainedColumns_with_sma_50 ==
    <<"rsi", "macd", "macd_histogram", "bb_width", "bb_position", "ema_trend",
      "volume_ratio", "stochastic", "price_change_1d", "price_change_5d",
      "price_change_10d", "volatility_20", "news_sentiment", "sma_50">>

TrainedColumns ==
    <<"rsi", "macd", "macd_histogram", "bb_width", "bb_position", "ema_trend",
      "volume_ratio", "stochastic", "price_change_1d", "price_change_5d",
      "price_change_10d", "volatility_20", "news_sentiment">>

\* model/train.py and model/predict.py: the six placeholder columns.
PlaceholderColumns ==
    <<"rsi", "macd", "bbWidth", "volumeRatio", "newsSentiment", "emaTrend">>

Classifier(classes, columns, allow_nan) ==
    [classes_ |-> classes, feature_names_in_ |-> columns, allow_nan |-> allow_nan]

ThreeClasses == <<-1, 0, 1>>
TwoClasses == <<0, 1>>

\* What a model file can hold: nothing, bytes joblib cannot load, the dict
\* train_with_real_data.py saves (possibly without feature_columns, or
\* naming a column no feature record carries), or a bare estimator as
\* model/train.py dumps it.
NoFile == [kind |-> "absent"]
CorruptFile == [kind |-> "corrupt"]
DictFile(data) == [kind |-> "dict", data |-> data]
EstimatorFile(clf) == [kind |-> "estimator", data |-> clf]

Artifacts ==
    {NoFile, CorruptFile}
    \cup {DictFile([model |-> Classifier(ThreeClasses, TrainedColumns, nan),
                    feature_columns |-> TrainedColumns]) : nan \in BOOLEAN}
    \cup {DictFile([model |-> Classifier(TwoClasses, TrainedColumns, FALSE),
                    feature_columns |-> TrainedColumns]),
          DictFile([model |-> Classifier(ThreeClasses, TrainedColumns, FALSE)]),
          DictFile([model |-> Classifier(ThreeClasses, TrainedColumns \o <<"sma_50">>, FALSE),
                    feature_columns |-> TrainedColumns \o <<"sma_50">>]),
          EstimatorFile(Classifier(ThreeClasses, PlaceholderColumns, FALSE)),
          EstimatorFile(Classifier(TwoClasses, PlaceholderColumns, FALSE))}

\* joblib.load: raises for a missing or unreadable file.
LoadRaises(file) == file.kind \in {"absent", "corrupt"}
\* obj['key']: a TypeError on an estimator, a KeyError on a missing key.
GetItemRaises(file, key) == file.kind # "dict" \/ key \notin DOMAIN file.data

\* Probability vectors predict_proba may return for one row.
ProbVectors(nclasses) ==
    IF nclasses = 3
    THEN {<<Rat(1, 10), Rat(2, 10), Rat(7, 10)>>, <<Rat(5, 10), Rat(3, 10), Rat(2, 10)>>}
    ELSE {<<Rat(1, 10), Rat(9, 10)>>, <<Rat(2, 3), Rat(1, 3)>>}

Range(seq) == {seq[j] : j \in DOMAIN seq}

\* The outputs of predict and predict_proba for n rows.
ClassifierOutputs(clf, n) ==
    [1..n -> [pred : Range(clf.classes_), probs : ProbVectors(Len(clf.classes_))]]

(***************************************************************************)
(* pandas.DataFrame(list of dicts): the columns are the union of the keys, *)
(* a key a record lacks is NaN in its row; None is NaN too.                *)
(***************************************************************************)
\* A timestamp cell is a string or a pandas Timestamp (the day it names).
Str(value) == [type |-> "str", value |-> value]
Timestamp(day) == [type |-> "Timestamp", value |-> day]

Cell(column, v) ==
    IF column \in {"symbol", "timestamp"} THEN v
    ELSE IF column = "ema_trend" THEN Num(v)
    ELSE IF v = None THEN NaN ELSE v

DataFrame(records) ==
    LET columns == UNION {DOMAIN records[j] : j \in DOMAIN records}
    IN  [columns |-> columns,
         rows |-> [j \in DOMAIN records |->
                     [c \in columns |->
                        IF c \in DOMAIN records[j] THEN Cell(c, records[j][c])
                        ELSE NaN]]]

\* df[columns] raises KeyError when a column is not in the frame (also for
\* columns = None).
SelectRaises(df, columns) ==
    columns = NoColumns \/ ~(Range(columns) \subseteq df.columns)

HasNaN(df, columns) ==
    \E j \in DOMAIN df.rows : \E c \in Range(columns) : df.rows[j][c] = NaN

\* model.predict(X) / predict_proba(X): scikit-learn rejects a frame whose
\* columns differ from those of fit (none included) and, unless the
\* estimator supports missing values, a frame with NaN.
\* df[columns]: the named columns of every row, in the order named.
Select(df, columns) ==
    [j \in DOMAIN df.rows |-> [m \in DOMAIN columns |-> df.rows[j][columns[m]]]]

PredictRaises(clf, df, columns) ==
    \/ columns # clf.feature_names_in_
    \/ HasNaN(df, columns) /\ ~clf.allow_nan

\* list.index(x): the position of x, ValueError when absent.
IndexRaises(seq, x) == x \notin Range(seq)
Index(seq, x) == CHOOSE j \in DOMAIN seq : seq[j] = x /\ \A m \in 1..(j - 1) : seq[m] # x

(***************************************************************************)
(* round(x, ndigits), repr(float) and format(x, ".1f").                    *)
(***************************************************************************)
RECURSIVE Pow10(_)
Pow10(e) == IF e = 0 THEN 1 ELSE 10 * Pow10(e - 1)

\* <<floor(n * 10^e / d), the remainder>>, by long division.
RECURSIVE ScaledFloor(_, _, _)
ScaledFloor(n, d, e) ==
    IF e = 0 THEN <<n \div d, n % d>>
    ELSE LET p == ScaledFloor(n, d, e - 1)
         IN  <<10 * p[1] + (10 * p[2]) \div d, (10 * p[2]) % d>>

\* Round half to even on the exact value; NaN and infinities are kept.
Round(x, ndigits) ==
    IF ~IsFinite(x) THEN x
    ELSE LET p == ScaledFloor(x.n, x.d, ndigits)
             q == p[1]
             r == p[2]
             up == 2 * r > x.d \/ (2 * r = x.d /\ q % 2 = 1)
         IN  Rat(IF up THEN q + 1 ELSE q, Pow10(ndigits))

Digits == <<"0", "1", "2", "3", "4", "5", "6", "7", "8", "9">>

RECURSIVE NatStr(_)
NatStr(n) == IF n < 10 THEN Digits[n + 1] ELSE NatStr(n \div 10) \o Digits[(n % 10) + 1]

\* The first `places` decimals of frac / den (0 <= frac < den).
RECURSIVE Decimals(_, _, _)
Decimals(frac, den, places) ==
    IF places = 0 THEN ""
    ELSE Digits[((10 * frac) \div den) + 1] \o Decimals((10 * frac) % den, den, places - 1)

\* The number of decimals the value needs (at least one, as repr prints).
RECURSIVE PlacesNeeded(_, _)
PlacesNeeded(frac, den) ==
    IF (10 * frac) % den = 0 THEN 1 ELSE 1 + PlacesNeeded((10 * frac) % den, den)

\* format(x, ".<places>f") of a value with a finite decimal expansion.
FixedStr(x, places) ==
    CASE x.k = "nan" -> "nan"
      [] x.k = "pinf" -> "inf"
      [] x.k = "ninf" -> "-inf"
      [] OTHER ->
            LET r == Round(x, places)
                a == AbsInt(r.n)
            IN  (IF r.n < 0 THEN "-" ELSE "") \o NatStr(a \div r.d)
                \o "." \o Decimals(a % r.d, r.d, places)

\* repr of a float already rounded to a few decimals: "75.0", "0.85".
FloatStr(x) ==
    IF ~IsFinite(x) THEN FixedStr(x, 1)
    ELSE FixedStr(x, PlacesNeeded(AbsInt(x.n) % x.d, x.d))

IntStr(i) == IF i < 0 THEN "-" \o NatStr(-i) ELSE NatStr(i)

\* Timestamp.isoformat(): the date as text (days are numbered from the
\* first bar of the history).
IsoFormat(ts) == "day-" \o NatStr(ts.value) \o "T00:00:00+00:00"

(***************************************************************************)
(* ml-service/main.py: load_model at startup and the /predict handler.     *)
(***************************************************************************)
ClassMap(cls) ==
    CASE cls = -1 -> "sell"
      [] cls = 0 -> "hold"
      [] cls = 1 -> "buy"
      [] OTHER -> "hold"

ClassLabel(cls) == IF cls \in {-1, 0, 1} THEN ClassMap(cls) ELSE IntStr(cls)

\* The requests of the classifier service: the test's records, and the
\* TSLA record without news_sentiment (optional) or volatility_20 (required).
Without(rec, key) == [c \in DOMAIN rec \ {key} |-> rec[c]]

ClassifierFeatures ==
    {AAPL_record, TSLA_record, Without(TSLA_record, "news_sentiment"),
     Without(TSLA_record, "volatility_20")}

MainRequests ==
    {[features |-> fs, include_probabilities |-> ip] :
        fs \in SeqsUpTo(ClassifierFeatures, MaxBatch), ip \in BOOLEAN}

\* features_data: the fifteen keys the handler copies from every record.
FeaturesData(features) ==
    [j \in DOMAIN features |->
        [c \in RequiredFields \cup {"news_sentiment", "price"} |-> features[j][c]]]

MainLoadModel ==
    /\ pc = "startup"
    /\ \E file \in Artifacts :
          IF LoadRaises(file) \/ GetItemRaises(file, "model")
          THEN UNCHANGED <<MODEL, MODEL_INFO>>
          ELSE /\ MODEL' = file.data.model
               /\ MODEL_INFO' =
                     [version |-> "2.0",
                      feature_columns |->
                          IF "feature_columns" \in DOMAIN file.data
                          THEN file.data.feature_columns ELSE <<>>,
                      model_type |-> "RandomForestClassifier"]
    /\ pc' = "idle"
    /\ call' = "main.load_model"
    /\ UNCHANGED <<request, response, timestamp, feature_i, score,
                   reasoning_parts, signals, predictions, probabilities, predictor,
                   providerVars>>

\* Generate reasoning with specific indicator values (lines 249-305).
MainReasoningParts(row) ==
    LET rsi_val == Round(row.rsi, 2)
        macd_val == Round(row.macd, 4)
        macd_hist == Round(row.macd_histogram, 4)
        bb_pos == Round(row.bb_position, 3)
        vol_ratio == Round(row.volume_ratio, 2)
        stoch_val == Round(row.stochastic, 2)
        ema_trend == row.ema_trend
        rsi_part ==
            IF Gt(rsi_val, Num(70))
            THEN <<"Overbought conditions (RSI " \o FloatStr(rsi_val) \o ")">>
            ELSE IF Lt(rsi_val, Num(30))
            THEN <<"Oversold conditions (RSI " \o FloatStr(rsi_val) \o ")">>
            ELSE IF Le(Num(30), rsi_val) /\ Le(rsi_val, Num(70))
            THEN <<"Neutral RSI (" \o FloatStr(rsi_val) \o ")">>
            ELSE <<>>
        macd_part ==
            IF Gt(macd_hist, Num(0)) /\ NumEq(ema_trend, Num(1))
            THEN <<"Bullish momentum (MACD " \o FloatStr(macd_val) \o ", EMA trend up)">>
            ELSE IF Lt(macd_hist, Num(0)) /\ NumEq(ema_trend, Num(0))
            THEN <<"Bearish momentum (MACD " \o FloatStr(macd_val) \o ", EMA trend down)">>
            ELSE IF Gt(macd_hist, Num(0))
            THEN <<"Positive MACD (" \o FloatStr(macd_val) \o ")">>
            ELSE IF Lt(macd_hist, Num(0))
            THEN <<"Negative MACD (" \o FloatStr(macd_val) \o ")">>
            ELSE <<>>
        bb_pct == FixedStr(Mul(bb_pos, Num(100)), 1)
        bb_part ==
            IF Gt(bb_pos, Rat(9, 10))
            THEN <<"Near upper Bollinger Band (" \o bb_pct \o "%)">>
            ELSE IF Lt(bb_pos, Rat(1, 10))
            THEN <<"Near lower Bollinger Band (" \o bb_pct \o "%)">>
            ELSE IF Le(Rat(4, 10), bb_pos) /\ Le(bb_pos, Rat(6, 10))
            THEN <<"Mid-range Bollinger position (" \o bb_pct \o "%)">>
            ELSE <<>>
        vol_part ==
            IF Gt(vol_ratio, Num(2))
            THEN <<"High volume (" \o FloatStr(vol_ratio) \o "x average)">>
            ELSE IF Lt(vol_ratio, Rat(5, 10))
            THEN <<"Low volume (" \o FloatStr(vol_ratio) \o "x average)">>
            ELSE IF Le(Rat(8, 10), vol_ratio) /\ Le(vol_ratio, Rat(12, 10))
            THEN <<"Normal volume (" \o FloatStr(vol_ratio) \o "x average)">>
            ELSE <<>>
        stoch_part ==
            IF Gt(stoch_val, Num(80))
            THEN <<"Overbought stochastic (" \o FloatStr(stoch_val) \o ")">>
            ELSE IF Lt(stoch_val, Num(20))
            THEN <<"Oversold stochastic (" \o FloatStr(stoch_val) \o ")">>
            ELSE <<>>
    IN  rsi_part \o macd_part \o bb_part \o vol_part \o stoch_part

\* The reasoning with the predicted action written into it.
MainReasoning_with_action(row, action, confidence) ==
    Join("; ", MainReasoningParts(row) \o <<"ML " \o action \o " signal">>)

MainReasoning(row, action, confidence) ==
    IF MainReasoningParts(row) # <<>>
    THEN Join("; ", MainReasoningParts(row))
    ELSE "ML " \o action \o " signal (confidence: "
         \o FixedStr(Mul(confidence, Num(100)), 1) \o "%)"

\* Get confidence: the probability at the index of the predicted class.
MainConfidence(classes, pred_class, probs) == probs[Index(classes, pred_class)]

\* The same mapping keyed sell, hold, buy by position in the class list.
MainProbDict_positional(classes, probs) ==
    [label \in {<<"sell", "hold", "buy">>[j] : j \in DOMAIN classes} |->
        Round(probs[Index(<<"sell", "hold", "buy">>, label)], 4)]

\* Add probabilities if requested: label -> probability rounded to 4.
MainProbDict(classes, probs) ==
    [label \in {ClassLabel(classes[j]) : j \in DOMAIN classes} |->
        LET j == CHOOSE m \in DOMAIN classes :
                    /\ ClassLabel(classes[m]) = label
                    /\ \A later \in DOMAIN classes :
                          ClassLabel(classes[later]) = label => later <= m
        IN  Round(probs[j], 4)]

Indicators(row) ==
    [rsi |-> Round(row.rsi, 2), macd |-> Round(row.macd, 4),
     bb_position |-> Round(row.bb_position, 2),
     volume_ratio |-> Round(row.volume_ratio, 2),
     stochastic |-> Round(row.stochastic, 2)]

MainSignal(row, out, classes, include_probabilities, ts) ==
    LET action == ClassMap(out.pred)
        confidence == MainConfidence(classes, out.pred, out.probs)
    IN  [symbol |-> row.symbol,
         action |-> action,
         confidence |-> confidence,
         price |-> IF IsNaN(row.price) THEN None ELSE row.price,
         reasoning |-> MainReasoning(row, action, confidence),
         indicators |-> Indicators(row),
         probabilities |-> IF include_probabilities
                           THEN MainProbDict(classes, out.probs) ELSE None,
         timestamp |-> ts]

\* One of the rows fails inside the try block.
MainRowRaises(out, classes) ==
    \/ IndexRaises(classes, out.pred)
    \/ ~InRange(MainConfidence(classes, out.pred, out.probs), Num(0), Num(1))

MainPredict ==
    /\ pc = "idle"
    /\ call' = "main.predict"
    /\ pc' = "done"
    /\ \E req \in MainRequests, t \in Times :
        /\ request' = req
        /\ IF ~RequestValid(req)
           THEN /\ response' = ValidationError
                /\ UNCHANGED <<predictions, probabilities, signals, timestamp>>
           ELSE IF MODEL = None
           THEN /\ response' = HTTPException(503, "Model not loaded")
                /\ UNCHANGED <<predictions, probabilities, signals, timestamp>>
           ELSE
             LET df == DataFrame(FeaturesData(ParseFeatures(req.features)))
                 feature_columns == MODEL_INFO.feature_columns
             IN  IF \/ SelectRaises(df, feature_columns)
                    \/ PredictRaises(MODEL, df, feature_columns)
                 THEN /\ response' = HTTPException(500, "Prediction failed")
                      /\ UNCHANGED <<predictions, probabilities, signals, timestamp>>
                 ELSE \E outs \in ClassifierOutputs(MODEL, Len(req.features)) :
                        /\ predictions' = [j \in DOMAIN outs |-> outs[j].pred]
                        /\ probabilities' = [j \in DOMAIN outs |-> outs[j].probs]
                        /\ timestamp' = t
                        /\ IF \E j \in DOMAIN outs : MainRowRaises(outs[j], MODEL.classes_)
                           THEN /\ response' = HTTPException(500, "Prediction failed")
                                /\ UNCHANGED signals
                           ELSE /\ signals' =
                                      [j \in DOMAIN outs |->
                                         MainSignal(df.rows[j], outs[j], MODEL.classes_,
                                                    req.include_probabilities, t)]
                                /\ response' =
                                      [outcome |-> "http", status |-> 200,
                                       success |-> TRUE, signals |-> signals',
                                       model_version |-> MODEL_INFO.version,
                                       timestamp |-> t]
    /\ UNCHANGED <<feature_i, score, reasoning_parts, MODEL, MODEL_INFO, predictor, providerVars>>

(***************************************************************************)
(* predict_with_real_data.py: TradingPredictor.                            *)
(***************************************************************************)
Raised(error) == [outcome |-> "raised", status |-> 0, detail |-> error]
Returned(sigs) == [outcome |-> "returned", status |-> 0, signals |-> sigs]

\* load_model: the three assignments run in order inside one try block, so
\* a failure keeps the assignments made before it.
LoadModel(self, file) ==
    IF LoadRaises(file) THEN self
    ELSE IF GetItemRaises(file, "model")
    THEN [self EXCEPT !.model_data = file.data]
    ELSE IF GetItemRaises(file, "feature_columns")
    THEN [self EXCEPT !.model_data = file.data, !.model = file.data.model]
    ELSE [model_data |-> file.data, model |-> file.data.model,
          feature_columns |-> file.data.feature_columns]

LoadModelResult(file) ==
    ~(LoadRaises(file) \/ GetItemRaises(file, "model")
        \/ GetItemRaises(file, "feature_columns"))

PredictorLoadModel ==
    /\ pc \in {"startup", "predictor"}
    /\ pc' = IF pc = "startup" THEN "predictor" ELSE "reloaded"
    /\ call' = "TradingPredictor.load_model"
    /\ \E file \in Artifacts :
          /\ predictor' = LoadModel(predictor, file)
          /\ request' = [path |-> file]
          /\ response' = Returned(<<LoadModelResult(file)>>)
    /\ UNCHANGED <<timestamp, feature_i, score, reasoning_parts, signals,
                   predictions, probabilities, MODEL, MODEL_INFO, providerVars>>

\* The feature dictionaries handed to predict: the service records with the
\* bar timestamp calculate_features adds.
WithTimestamp(rec) ==
    [c \in DOMAIN rec \cup {"timestamp"} |->
        IF c = "timestamp"
        THEN Str(IF rec.symbol = "AAPL" THEN "2024-01-02T00:00:00"
                 ELSE "2024-01-03T00:00:00")
        ELSE rec[c]]

PredictorFeatures == {WithTimestamp(rec) : rec \in ClassifierFeatures}

\* row['timestamp'] if isinstance(row['timestamp'], str) else .isoformat()
SignalTimestamp(ts) == IF ts.type = "str" THEN ts.value ELSE IsoFormat(ts)

PredictorAction(pred_class) ==
    IF pred_class = 1 THEN "buy" ELSE IF pred_class = -1 THEN "sell" ELSE "hold"

\* The class whose probability becomes the confidence.
PredictorConfidenceClass(pred_class) ==
    IF pred_class = 1 THEN 1 ELSE IF pred_class = -1 THEN -1 ELSE 0

PredictorConfidence(classes, pred_class, probs) ==
    probs[Index(classes, PredictorConfidenceClass(pred_class))]

\* The same clauses with the Bollinger group evaluated first.
PredictorReasoningParts_bollinger_first(row) ==
    (IF Gt(row.bb_position, Rat(9, 10)) THEN <<"Near upper BB">>
     ELSE IF Lt(row.bb_position, Rat(1, 10)) THEN <<"Near lower BB">> ELSE <<>>)
    \o (IF Gt(row.rsi, Num(70)) THEN <<"Overbought (RSI>70)">>
        ELSE IF Lt(row.rsi, Num(30)) THEN <<"Oversold (RSI<30)">> ELSE <<>>)
    \o (IF Gt(row.macd_histogram, Num(0)) /\ NumEq(row.ema_trend, Num(1))
        THEN <<"Bullish momentum">>
        ELSE IF Lt(row.macd_histogram, Num(0)) /\ NumEq(row.ema_trend, Num(0))
        THEN <<"Bearish momentum">> ELSE <<>>)

PredictorReasoningParts(row) ==
    (IF Gt(row.rsi, Num(70)) THEN <<"Overbought (RSI>70)">>
     ELSE IF Lt(row.rsi, Num(30)) THEN <<"Oversold (RSI<30)">> ELSE <<>>)
    \o (IF Gt(row.macd_histogram, Num(0)) /\ NumEq(row.ema_trend, Num(1))
        THEN <<"Bullish momentum">>
        ELSE IF Lt(row.macd_histogram, Num(0)) /\ NumEq(row.ema_trend, Num(0))
        THEN <<"Bearish momentum">> ELSE <<>>)
    \o (IF Gt(row.bb_position, Rat(9, 10)) THEN <<"Near upper BB">>
        ELSE IF Lt(row.bb_position, Rat(1, 10)) THEN <<"Near lower BB">> ELSE <<>>)

PredictorReasoning(row) ==
    IF PredictorReasoningParts(row) # <<>>
    THEN Join("; ", PredictorReasoningParts(row)) ELSE "ML prediction"

PredictorSignal(row, out, classes) ==
    [symbol |-> row.symbol,
     action |-> PredictorAction(out.pred),
     confidence |-> PredictorConfidence(classes, out.pred, out.probs),
     price |-> row.price,
     timestamp |-> SignalTimestamp(row.timestamp),
     reasoning |-> PredictorReasoning(row),
     indicators |-> Indicators(row)]

\* Columns the loop reads from every row.
PredictorRowColumns ==
    {"rsi", "macd_histogram", "ema_trend", "bb_position", "symbol", "price",
     "timestamp", "macd", "volume_ratio", "stochastic"}

\* A row fails on an absent class, on a column no record has, or on a
\* timestamp that is NaN (a float has no isoformat).
PredictorRowRaises(df, rec, out, classes) ==
    \/ IndexRaises(classes, PredictorConfidenceClass(out.pred))
    \/ ~(PredictorRowColumns \subseteq df.columns)
    \/ "timestamp" \notin DOMAIN rec

\* The body of predict for the feature dictionaries flist.
Predict(flist) ==
    IF predictor.model = None
    THEN /\ response' = Raised("Model not loaded")
         /\ UNCHANGED <<predictions, probabilities, signals>>
    ELSE
      LET df == DataFrame(flist)
          clf == predictor.model
      IN  IF SelectRaises(df, predictor.feature_columns)
          THEN /\ response' = Raised("KeyError")
               /\ UNCHANGED <<predictions, probabilities, signals>>
          ELSE IF PredictRaises(clf, df, predictor.feature_columns)
          THEN /\ response' = Raised("ValueError")
               /\ UNCHANGED <<predictions, probabilities, signals>>
          ELSE \E outs \in ClassifierOutputs(clf, Len(flist)) :
                 /\ predictions' = [j \in DOMAIN outs |-> outs[j].pred]
                 /\ probabilities' = [j \in DOMAIN outs |-> outs[j].probs]
                 /\ IF \E j \in DOMAIN outs :
                          PredictorRowRaises(df, flist[j], outs[j], clf.classes_)
                    THEN /\ response' = Raised("Exception")
                         /\ UNCHANGED signals
                    ELSE /\ signals' =
                               [j \in DOMAIN outs |->
                                  PredictorSignal(df.rows[j], outs[j], clf.classes_)]
                         /\ response' = Returned(signals')

PredictorPredict ==
    /\ pc \in {"startup", "predictor", "reloaded"}
    /\ pc' = "done"
    /\ call' = "TradingPredictor.predict"
    /\ \E flist \in SeqsUpTo(PredictorFeatures, MaxBatch) :
          /\ request' = [features |-> flist]
          /\ Predict(flist)
    /\ UNCHANGED <<timestamp, feature_i, score, reasoning_parts,
                   MODEL, MODEL_INFO, predictor, providerVars>>

(***************************************************************************)
(* model/predict.py: handler.do_POST.                                      *)
(***************************************************************************)
Symbols == {"AAPL", "TSLA"}

\* Placeholder features for the given symbols.
HandlerRows(symbols) ==
    [j \in DOMAIN symbols |->
        [symbol |-> symbols[j], rsi |-> Rat(55, 100), macd |-> Num(0),
         bbWidth |-> Rat(2, 100), volumeRatio |-> Num(1),
         newsSentiment |-> Num(0), emaTrend |-> Num(1), price |-> Num(150)]]

\* The same mapping read with the classes encoded 0, 1, 2.
HandlerAction_zero_based(cls) ==
    IF cls = 0 THEN "sell" ELSE IF cls = 1 THEN "hold" ELSE "buy"

HandlerAction(cls) ==
    IF cls = 0 THEN "hold" ELSE IF cls = 1 THEN "buy" ELSE "sell"

RECURSIVE MaxOf(_)
MaxOf(seq) ==
    IF Len(seq) = 1 THEN seq[1]
    ELSE LET rest == MaxOf(Tail(seq))
         IN  IF Gt(seq[1], rest) \/ IsNaN(seq[1]) THEN seq[1] ELSE rest

\* Take max prob as confidence (0.6 without three probability columns).
HandlerConfidence(probs) ==
    IF Len(probs) >= 3 THEN MaxOf(probs) ELSE Rat(6, 10)

HandlerSignal(row, out, now) ==
    [symbol |-> row.symbol,
     action |-> HandlerAction(out.pred),
     confidence |-> HandlerConfidence(out.probs),
     price |-> row.price,
     timestamp |-> now,
     reasoning |-> "RF prediction"]

HandlerPost ==
    /\ pc = "startup"
    /\ pc' = "done"
    /\ call' = "handler.do_POST"
    /\ \E symbols \in SeqsUpTo(Symbols, MaxBatch), env \in BOOLEAN,
          file \in Artifacts, now \in Times :
        /\ request' = [symbols |-> symbols, env |-> env, file |-> file]
        /\ IF ~env
           THEN /\ response' = [outcome |-> "http", status |-> 400, success |-> FALSE,
                                error |-> "Missing SUPABASE_URL or SUPABASE_SERVICE_ROLE_KEY"]
                /\ UNCHANGED <<predictions, probabilities, signals, timestamp>>
           ELSE IF LoadRaises(file)
           THEN /\ response' = [outcome |-> "http", status |-> 200, success |-> TRUE,
                                signals |-> <<>>,
                                note |-> "Model not found yet. Train first."]
                /\ UNCHANGED <<predictions, probabilities, signals, timestamp>>
           ELSE
             LET df == DataFrame(HandlerRows(symbols))
                 model == file.data
             IN  IF \/ SelectRaises(df, PlaceholderColumns)
                    \/ file.kind # "estimator"
                    \/ PredictRaises(model, df, PlaceholderColumns)
                 THEN /\ response' = [outcome |-> "crash", status |-> 500]
                      /\ UNCHANGED <<predictions, probabilities, signals, timestamp>>
                 ELSE \E outs \in ClassifierOutputs(model, Len(symbols)) :
                        /\ predictions' = [j \in DOMAIN outs |-> outs[j].pred]
                        /\ probabilities' = [j \in DOMAIN outs |-> outs[j].probs]
                        /\ timestamp' = now
                        /\ signals' = [j \in DOMAIN outs |->
                                          HandlerSignal(df.rows[j], outs[j], now)]
                        /\ response' = [outcome |-> "http", status |-> 200,
                                        success |-> TRUE, signals |-> signals']
    /\ UNCHANGED <<feature_i, score, reasoning_parts, MODEL, MODEL_INFO, predictor, providerVars>>

(***************************************************************************)
(* predict_with_real_data.py: MarketDataProvider.  A bars frame is the     *)
(* sequence of its rows, oldest first; a series is a function of the row   *)
(* index, and iloc[latest_idx] is the element at the last index.           *)
(***************************************************************************)
MinBars == 50
RsiWindow == 14
BbWindow == 20
VolumeWindow == 20
StochWindow == 14
VolatilityWindow == 20

Bar(close, high, low, volume) ==
    [close |-> Num(close), high |-> Num(high), low |-> Num(low), volume |-> Num(volume)]

NormalBar == Bar(100, 101, 99, 1000)
FlatBar == Bar(100, 100, 100, 1000)
ZeroBar == Bar(0, 0, 0, 0)
UpBar == Bar(120, 121, 100, 2000)
DownBar == Bar(90, 100, 89, 500)
\* The assembler does not validate bars: a close above the bar's high.
BreakoutBar == Bar(105, 101, 99, 1000)
\* A close off a bar whose high and low coincide.
OffRangeBar == Bar(105, 100, 100, 1000)

\* n daily bars: the base bar repeated, then the bars of tail.
History(n, base, tail) ==
    [t \in 1..n |->
        LET b == IF t <= n - Len(tail) THEN base ELSE tail[t - (n - Len(tail))]
        IN  [timestamp |-> Timestamp(t), close |-> b.close, high |-> b.high,
             low |-> b.low, volume |-> b.volume]]

BaseBars == {NormalBar, FlatBar, ZeroBar}
TailBars == {NormalBar, FlatBar, ZeroBar, UpBar, DownBar, BreakoutBar, OffRangeBar}
Tails == {<<>>} \cup {<<b>> : b \in TailBars} \cup {<<a, b>> : a, b \in TailBars}
Lengths == {10, MinBars - 1, MinBars, MinBars + 1}

Histories ==
    {History(n, base, tail) : n \in Lengths, base \in BaseBars, tail \in Tails}

\* bars['close'] and the like.
Column(bars, c) == [t \in DOMAIN bars |-> bars[t][c]]

\* Series.diff(): the first element is NaN.
Diff(s) == [t \in DOMAIN s |-> IF t = 1 THEN NaN ELSE Sub(s[t], s[t - 1])]

\* delta.where(delta > 0, 0) and -delta.where(delta < 0, 0).
Gains(delta) ==
    [t \in DOMAIN delta |-> IF Gt(delta[t], Num(0)) THEN delta[t] ELSE Num(0)]
Losses(delta) ==
    [t \in DOMAIN delta |-> Neg(IF Lt(delta[t], Num(0)) THEN delta[t] ELSE Num(0))]

\* Series.pct_change(periods).
PctChange(s, periods) ==
    [t \in DOMAIN s |->
        IF t <= periods THEN NaN ELSE Sub(Div(s[t], s[t - periods]), Num(1))]

RECURSIVE Sum(_, _, _)
Sum(s, from, to) == IF from > to THEN Num(0) ELSE Add(s[from], Sum(s, from + 1, to))

RECURSIVE MinOver(_, _, _)
MinOver(s, from, to) ==
    IF from = to THEN s[to] ELSE MinNum(s[from], MinOver(s, from + 1, to))

RECURSIVE MaxOver(_, _, _)
MaxOver(s, from, to) ==
    IF from = to THEN s[to]
    ELSE LET rest == MaxOver(s, from + 1, to)
         IN  IF Gt(rest, s[from]) THEN rest ELSE s[from]

\* Series.rolling(window): a result needs window observations; NaN is not
\* an observation and pandas turns infinities into NaN before aggregating.
FullWindow(s, window, t) ==
    t >= window /\ \A j \in (t - window + 1)..t : IsFinite(s[j])

RollingMean(s, window) ==
    [t \in DOMAIN s |->
        IF FullWindow(s, window, t)
        THEN Div(Sum(s, t - window + 1, t), Num(window)) ELSE NaN]

RollingMin(s, window) ==
    [t \in DOMAIN s |->
        IF FullWindow(s, window, t) THEN MinOver(s, t - window + 1, t) ELSE NaN]

RollingMax(s, window) ==
    [t \in DOMAIN s |->
        IF FullWindow(s, window, t) THEN MaxOver(s, t - window + 1, t) ELSE NaN]

\* The largest r in lo..hi with r * r <= n.
RECURSIVE ISqrt(_, _, _)
ISqrt(n, lo, hi) ==
    IF lo = hi THEN lo
    ELSE LET mid == (lo + hi + 1) \div 2
         IN  IF mid * mid <= n THEN ISqrt(n, mid, hi) ELSE ISqrt(n, lo, mid - 1)

\* The square root is a rounded operation: the operand is first rounded to
\* a fraction whose terms fit the precision of the arithmetic, the root is
\* rounded down to a multiple of 1/(d * scale).  Roots of zero and of
\* squares of fractions are exact, the root of a positive number is positive.
RECURSIVE Coarsen(_)
Coarsen(x) ==
    IF x.n <= 2147483647 \div x.d THEN x
    ELSE Coarsen(Rat(x.n \div 2, x.d \div 2))

Sqrt(x) ==
    CASE IsNaN(x) -> NaN
      [] x.k = "pinf" -> PInf
      [] x.k = "ninf" \/ x.n < 0 -> NaN
      [] OTHER ->
            LET c == Coarsen(x)
                scale == CHOOSE m \in {1, 10, 100, 1000} :
                            /\ c.n * c.d <= 2147483647 \div (m * m)
                            /\ \A larger \in {10, 100, 1000} :
                                  larger > m => c.n * c.d > 2147483647 \div (larger * larger)
            IN  Rat(ISqrt(c.n * c.d * scale * scale, 0, 46340), c.d * scale)

\* Sample standard deviation (ddof = 1) of the window ending at t.
Square(x) == Mul(x, x)
WindowStd(s, window, t) ==
    LET mean == Div(Sum(s, t - window + 1, t), Num(window))
        deviations == [j \in DOMAIN s |-> Square(Sub(s[j], mean))]
    IN  Sqrt(Div(Sum(deviations, t - window + 1, t), Num(window - 1)))

RollingStd(s, window) ==
    [t \in DOMAIN s |-> IF FullWindow(s, window, t) THEN WindowStd(s, window, t) ELSE NaN]

\* Series.ewm(span, adjust=False).mean(): y[1] = x[1] and
\* y[t] = alpha x[t] + (1 - alpha) y[t-1] with alpha = 2 / (span + 1).
RECURSIVE EwmFrom(_, _, _, _)
EwmFrom(s, alpha, t, acc) ==
    IF t \notin DOMAIN s THEN acc
    ELSE EwmFrom(s, alpha, t + 1,
            Append(acc, IF t = 1 THEN s[1]
                        ELSE Add(Mul(alpha, s[t]), Mul(Sub(Num(1), alpha), acc[t - 1]))))

Ewm(s, span) == EwmFrom(s, Rat(2, span + 1), 1, <<>>)

\* The indicator series of calculate_features (lines 87-129).
Rsi(close) ==
    LET delta == Diff(close)
        gain == RollingMean(Gains(delta), RsiWindow)
        loss == RollingMean(Losses(delta), RsiWindow)
    IN  [t \in DOMAIN close |->
            LET rs == Div(gain[t], loss[t])
            IN  Sub(Num(100), Div(Num(100), Add(Num(1), rs)))]

Macd(close) ==
    LET ema_12 == Ewm(close, 12)
        ema_26 == Ewm(close, 26)
    IN  [t \in DOMAIN close |-> Sub(ema_12[t], ema_26[t])]

MacdHistogram(close) ==
    LET macd == Macd(close)
        signal == Ewm(macd, 9)
    IN  [t \in DOMAIN close |-> Sub(macd[t], signal[t])]

BbUpper(close) ==
    LET bb_middle == RollingMean(close, BbWindow)
        bb_std == RollingStd(close, BbWindow)
    IN  [t \in DOMAIN close |-> Add(bb_middle[t], Mul(Num(2), bb_std[t]))]

BbLower(close) ==
    LET bb_middle == RollingMean(close, BbWindow)
        bb_std == RollingStd(close, BbWindow)
    IN  [t \in DOMAIN close |-> Sub(bb_middle[t], Mul(Num(2), bb_std[t]))]

BbWidth(close) ==
    LET bb_middle == RollingMean(close, BbWindow)
        bb_upper == BbUpper(close)
        bb_lower == BbLower(close)
    IN  [t \in DOMAIN close |-> Div(Sub(bb_upper[t], bb_lower[t]), bb_middle[t])]

BbPosition(close) ==
    LET bb_upper == BbUpper(close)
        bb_lower == BbLower(close)
    IN  [t \in DOMAIN close |->
            Div(Sub(close[t], bb_lower[t]), Sub(bb_upper[t], bb_lower[t]))]

\* (ema_20 > ema_50).astype(int)
EmaTrend(close) ==
    LET ema_20 == Ewm(close, 20)
        ema_50 == Ewm(close, 50)
    IN  [t \in DOMAIN close |-> IF Gt(ema_20[t], ema_50[t]) THEN 1 ELSE 0]

VolumeRatio(volume) ==
    LET avg_volume == RollingMean(volume, VolumeWindow)
    IN  [t \in DOMAIN volume |-> Div(volume[t], avg_volume[t])]

Stochastic(close, high, low) ==
    LET lowest_low == RollingMin(low, StochWindow)
        highest_high == RollingMax(high, StochWindow)
    IN  [t \in DOMAIN close |->
            Div(Mul(Num(100), Sub(close[t], lowest_low[t])),
                Sub(highest_high[t], lowest_low[t]))]

Volatility(close) == RollingStd(PctChange(close, 1), VolatilityWindow)

\* The elements at latest_idx, before the NaN defaults are applied.
LatestValues(bars) ==
    LET close == Column(bars, "close")
        high == Column(bars, "high")
        low == Column(bars, "low")
        volume == Column(bars, "volume")
        latest_idx == Len(bars)
    IN  [rsi |-> Rsi(close)[latest_idx],
         macd |-> Macd(close)[latest_idx],
         macd_histogram |-> MacdHistogram(close)[latest_idx],
         bb_width |-> BbWidth(close)[latest_idx],
         bb_position |-> BbPosition(close)[latest_idx],
         ema_trend |-> EmaTrend(close)[latest_idx],
         volume_ratio |-> VolumeRatio(volume)[latest_idx],
         stochastic |-> Stochastic(close, high, low)[latest_idx],
         price_change_1d |-> PctChange(close, 1)[latest_idx],
         price_change_5d |-> PctChange(close, 5)[latest_idx],
         price_change_10d |-> PctChange(close, 10)[latest_idx],
         volatility_20 |-> Volatility(close)[latest_idx]]

\* float(x) if not pd.isna(x) else default
OrDefault(x, default) == IF IsNaN(x) THEN default ELSE x

\* The features dictionary of one symbol (lines 131-151).
Features(symbol, bars) ==
    LET latest == LatestValues(bars)
        latest_idx == Len(bars)
    IN  [symbol |-> symbol,
         timestamp |-> bars[latest_idx].timestamp,
         price |-> bars[latest_idx].close,
         rsi |-> OrDefault(latest.rsi, Num(50)),
         macd |-> OrDefault(latest.macd, Num(0)),
         macd_histogram |-> OrDefault(latest.macd_histogram, Num(0)),
         bb_width |-> OrDefault(latest.bb_width, Rat(2, 100)),
         bb_position |-> OrDefault(latest.bb_position, Rat(5, 10)),
         ema_trend |-> latest.ema_trend,
         volume_ratio |-> OrDefault(latest.volume_ratio, Num(1)),
         stochastic |-> OrDefault(latest.stochastic, Num(50)),
         price_change_1d |-> OrDefault(latest.price_change_1d, Num(0)),
         price_change_5d |-> OrDefault(latest.price_change_5d, Num(0)),
         price_change_10d |-> OrDefault(latest.price_change_10d, Num(0)),
         volatility_20 |-> OrDefault(latest.volatility_20, Num(0)),
         news_sentiment |-> Num(0)]

\* if len(bars) < 50: continue
TooFewBars_inclusive(bars) == Len(bars) <= MinBars
TooFewBars(bars) == Len(bars) < MinBars

\* A dict keeps its keys in insertion order; it is modelled as the sequence
\* of its items.  d[key] = value keeps the place of a key already present.
Item(symbol, bars) == [symbol |-> symbol, bars |-> bars]
Keys(d) == {d[j].symbol : j \in DOMAIN d}
DictSet_front(d, key, value) ==
    IF key \in Keys(d)
    THEN [j \in DOMAIN d |-> IF d[j].symbol = key THEN Item(key, value) ELSE d[j]]
    ELSE <<Item(key, value)>> \o d
DictSet(d, key, value) ==
    IF key \in Keys(d)
    THEN [j \in DOMAIN d |-> IF d[j].symbol = key THEN Item(key, value) ELSE d[j]]
    ELSE Append(d, Item(key, value))

\* calculate_features: one pass over bars_dict.items().
RECURSIVE CalculateFeaturesFrom(_, _, _)
CalculateFeaturesFrom(d, j, acc) ==
    IF j > Len(d) THEN acc
    ELSE CalculateFeaturesFrom(d, j + 1,
            IF TooFewBars(d[j].bars) THEN acc
            ELSE Append(acc, Features(d[j].symbol, d[j].bars)))

CalculateFeatures(d) == CalculateFeaturesFrom(d, 1, <<>>)

\* The mappings handed to calculate_features: one symbol with every
\* history, two symbols with the unvaried histories in both orders.
PlainHistories == {History(n, base, <<>>) : n \in Lengths, base \in BaseBars}
SameKeyTwice ==
    {<<Item(s, h1), Item(s, h2)>> :
        s \in Symbols, h1 \in PlainHistories, h2 \in PlainHistories}
BarsDicts ==
    {<<Item("AAPL", h)>> : h \in Histories}
    \cup ({<<Item(s1, h1), Item(s2, h2)>> :
              s1 \in Symbols, s2 \in Symbols,
              h1 \in PlainHistories, h2 \in PlainHistories} \ SameKeyTwice)

CalculateFeaturesCall ==
    /\ pc = "provider"
    /\ pc' = "done"
    /\ call' = "calculate_features"
    /\ \E d \in BarsDicts :
          /\ bars_dict' = d
          /\ features_list' = CalculateFeatures(d)
          /\ request' = [bars_dict |-> d]
          /\ response' = Returned(features_list')
    /\ UNCHANGED <<timestamp, feature_i, score, reasoning_parts, signals>>
    /\ UNCHANGED classifierVars

InitAssembler == pc = "provider" /\ InitIdle
NextAssembler == CalculateFeaturesCall
SpecAssembler == InitAssembler /\ [][NextAssembler]_vars

(***************************************************************************)
(* predict_with_real_data.py: get_latest_bars and predict_for_symbols.     *)
(***************************************************************************)
\* What api.get_bars(symbol, ...).df does for one symbol: it raises, or it
\* returns a frame (possibly empty).
FetchError == [kind |-> "error", bars |-> <<>>]
Frame(bars) == [kind |-> "frame", bars |-> bars]
FetchOutcomes ==
    {FetchError, Frame(<<>>), Frame(History(MinBars - 1, NormalBar, <<UpBar>>)),
     Frame(History(MinBars, NormalBar, <<UpBar>>))}

\* get_latest_bars: the symbols in order; a failed or empty fetch adds
\* nothing to all_bars.
RECURSIVE GetLatestBarsFrom(_, _, _, _)
GetLatestBarsFrom(symbols, fetched, j, all_bars) ==
    IF j > Len(symbols) THEN all_bars
    ELSE GetLatestBarsFrom(symbols, fetched, j + 1,
            IF fetched[j].kind = "frame" /\ fetched[j].bars # <<>>
            THEN DictSet(all_bars, symbols[j], fetched[j].bars)
            ELSE all_bars)

GetLatestBars(symbols, fetched) == GetLatestBarsFrom(symbols, fetched, 1, <<>>)

\* main(): the default symbols.
PipelineSymbols == {"AAPL", "TSLA", "NVDA"}

\* predict_for_symbols, lines 291-296: a new predictor, load_model from disk.
PfsLoadModel ==
    /\ pc = "main"
    /\ call' = "predict_for_symbols"
    /\ \E symbols \in SeqsUpTo(PipelineSymbols, MaxBatch), file \in Artifacts :
          /\ request' = [symbols |-> symbols, fetched |-> <<>>]
          /\ predictor' = LoadModel(predictor, file)
          /\ pc' = IF LoadModelResult(file) THEN "fetch" ELSE "download"
    /\ UNCHANGED <<response, timestamp, feature_i, score, reasoning_parts, signals,
                   predictions, probabilities, MODEL, MODEL_INFO, providerVars>>

\* Lines 297-299 with download_model_from_supabase (181-212): without
\* credentials the ValueError propagates; a failed download returns False
\* and "Could not load model" is raised; after a download the result of
\* load_model is ignored and True is returned.
PfsDownload ==
    /\ pc = "download"
    /\ \E env \in BOOLEAN, file \in Artifacts :
          IF ~env
          THEN /\ response' = Raised("Supabase credentials not found")
               /\ pc' = "done"
               /\ UNCHANGED predictor
          ELSE IF file = NoFile
          THEN /\ response' = Raised("Could not load model")
               /\ pc' = "done"
               /\ UNCHANGED predictor
          ELSE /\ predictor' = LoadModel(predictor, file)
               /\ pc' = "fetch"
               /\ UNCHANGED response
    /\ UNCHANGED <<call, request, timestamp, feature_i, score, reasoning_parts, signals,
                   predictions, probabilities, MODEL, MODEL_INFO, providerVars>>

\* Lines 301-307: fetch the bars; no bars at all: return [].
PfsGetLatestBars ==
    /\ pc = "fetch"
    /\ \E fetched \in [DOMAIN request.symbols -> FetchOutcomes] :
          /\ request' = [request EXCEPT !.fetched = fetched]
          /\ bars_dict' = GetLatestBars(request.symbols, fetched)
    /\ IF bars_dict' = <<>>
       THEN response' = Returned(<<>>) /\ pc' = "done"
       ELSE pc' = "calculate" /\ UNCHANGED response
    /\ UNCHANGED <<call, timestamp, feature_i, score, reasoning_parts, signals,
                   features_list>>
    /\ UNCHANGED classifierVars

\* Lines 309-315: assemble the features; no record at all: return [].
PfsCalculateFeatures ==
    /\ pc = "calculate"
    /\ features_list' = CalculateFeatures(bars_dict)
    /\ IF features_list' = <<>>
       THEN response' = Returned(<<>>) /\ pc' = "done"
       ELSE pc' = "predict" /\ UNCHANGED response
    /\ UNCHANGED <<call, request, timestamp, feature_i, score, reasoning_parts,
                   signals, bars_dict>>
    /\ UNCHANGED classifierVars

\* Lines 317-323: predict and return the signals.
PfsPredict ==
    /\ pc = "predict"
    /\ pc' = "done"
    /\ Predict(features_list)
    /\ UNCHANGED <<call, request, timestamp, feature_i, score, reasoning_parts,
                   MODEL, MODEL_INFO, predictor, providerVars>>

InitPipeline == pc = "main" /\ InitIdle

NextPipeline ==
    \/ PfsLoadModel
    \/ PfsDownload
    \/ PfsGetLatestBars
    \/ PfsCalculateFeatures
    \/ PfsPredict

SpecPipeline == InitPipeline /\ [][NextPipeline]_vars

(***************************************************************************)
(* The reasoning composers of ml-service/main.py, TradingPredictor.predict *)
(* and ml-service-render.py, applied to one row and one prediction.        *)
(***************************************************************************)
\* ml-service-render.py, lines 137-153.
RenderReasoningParts(row) ==
    (IF Gt(row.rsi, Num(70)) THEN <<"Overbought (RSI>70)">>
     ELSE IF Lt(row.rsi, Num(30)) THEN <<"Oversold (RSI<30)">> ELSE <<>>)
    \o (IF Gt(row.macd_histogram, Num(0)) /\ NumEq(row.ema_trend, Num(1))
        THEN <<"Bullish momentum">>
        ELSE IF Lt(row.macd_histogram, Num(0)) /\ NumEq(row.ema_trend, Num(0))
        THEN <<"Bearish momentum">> ELSE <<>>)
    \o (IF Gt(row.bb_position, Rat(9, 10)) THEN <<"Near upper Bollinger Band">>
        ELSE IF Lt(row.bb_position, Rat(1, 10)) THEN <<"Near lower Bollinger Band">>
        ELSE <<>>)

\* Line 155.
RenderReasoning(row, action) ==
    IF RenderReasoningParts(row) # <<>>
    THEN Join("; ", RenderReasoningParts(row))
    ELSE "ML " \o action \o " signal"

\* Records on either side of the composers' thresholds, every one of them
\* valid input of the three services.
ComposerRecords ==
    {RawFeature("TSLA", r, m, b, e, v, s) :
        r \in {Num(25), Num(50), Num(75)},
        m \in {Rat(-5, 100), Num(0), Rat(2, 100)},
        b \in {Rat(5, 100), Rat(3, 10), Rat(5, 10), Rat(95, 100)},
        e \in {0, 1},
        v \in {Rat(4, 10), Num(1), Rat(15, 10), Rat(25, 10)},
        s \in {Num(10), Num(50), Num(90)}}
    \cup {RawFeature("TSLA", r, Num(0), Rat(3, 10), 0, Rat(15, 10), Num(50)) :
            r \in {Num(0), Rat(29996, 1000), Num(30), Num(70), Rat(70004, 1000),
                   Num(100)}}

\* The predicted class and its probability, as the classifier gives them.
ComposerPredictions ==
    {[pred |-> cls, confidence |-> p] :
        cls \in Range(ThreeClasses), p \in {Rat(7, 10), Rat(2, 3)}}

Composed(name, raw, action, confidence, parts, reasoning) ==
    /\ pc = "compose"
    /\ pc' = "composed"
    /\ call' = name
    /\ request' = [features |-> <<raw>>, action |-> action, confidence |-> confidence]
    /\ reasoning_parts' = parts
    /\ response' = [outcome |-> "composed", status |-> 0, reasoning |-> reasoning]
    /\ UNCHANGED <<timestamp, feature_i, score, signals, classifierVars, providerVars>>

MainCompose ==
    \E raw \in ComposerRecords, out \in ComposerPredictions :
        LET row == DataFrame(FeaturesData(ParseFeatures(<<raw>>))).rows[1]
            action == ClassMap(out.pred)
        IN  Composed("main.predict", raw, action, out.confidence,
                     MainReasoningParts(row),
                     MainReasoning(row, action, out.confidence))

PredictorCompose ==
    \E raw \in ComposerRecords, out \in ComposerPredictions :
        LET row == DataFrame(<<WithTimestamp(raw)>>).rows[1]
        IN  Composed("TradingPredictor.predict", raw, PredictorAction(out.pred),
                     out.confidence, PredictorReasoningParts(row),
                     PredictorReasoning(row))

RenderCompose ==
    \E raw \in ComposerRecords, out \in ComposerPredictions :
        LET row == DataFrame(<<raw>>).rows[1]
            action == ClassMap(out.pred)
        IN  Composed("ml-service-render.predict", raw, action, out.confidence,
                     RenderReasoningParts(row), RenderReasoning(row, action))

InitComposer == pc = "compose" /\ InitIdle

NextComposer ==
    \/ MainCompose
    \/ PredictorCompose
    \/ RenderCompose

SpecComposer == InitComposer /\ [][NextComposer]_vars

(***************************************************************************)
(* train_with_real_data.py: TradingModelTrainer.add_technical_indicators,  *)
(* create_labels and prepare_features on the frame of all symbols.  The    *)
(* TechnicalIndicators functions are the formulas of calculate_features.  *)
(***************************************************************************)
TrainBars == 22

\* fetch_multiple_symbols: the bars of each symbol with a symbol column,
\* concatenated in the order the symbols were asked for.
SymbolFrame(symbol, bars) ==
    [t \in DOMAIN bars |->
        [symbol |-> symbol, timestamp |-> bars[t].timestamp, close |-> bars[t].close,
         high |-> bars[t].high, low |-> bars[t].low, volume |-> bars[t].volume]]

TrainingHistories ==
    {History(TrainBars, NormalBar, tail) :
        tail \in {<<>>, <<UpBar>>, <<DownBar>>, <<UpBar, DownBar>>,
                  <<DownBar, UpBar>>, <<UpBar, UpBar>>}}
    \cup {History(TrainBars, ZeroBar, <<UpBar, DownBar>>)}
OtherHistories ==
    {History(TrainBars, NormalBar, tail) : tail \in {<<>>, <<DownBar>>, <<DownBar, UpBar>>}}
TrainingFrames ==
    {SymbolFrame("AAPL", h) : h \in TrainingHistories}
    \cup {SymbolFrame("AAPL", h1) \o SymbolFrame("TSLA", h2) :
            h1 \in TrainingHistories, h2 \in OtherHistories}
    \cup {SymbolFrame("TSLA", h1) \o SymbolFrame("AAPL", h2) :
            h1 \in TrainingHistories, h2 \in OtherHistories}

\* df.groupby('symbol'): the groups in ascending order of the key, the rows
\* of a group in their order in the frame.
GroupKeys(df) == SelectSeq(<<"AAPL", "NVDA", "TSLA">>, LAMBDA k : \E j \in DOMAIN df : df[j].symbol = k)
GroupRows_first_key(df, key) == SelectSeq(df, LAMBDA row : row.symbol = df[1].symbol)
GroupRows(df, key) == SelectSeq(df, LAMBDA row : row.symbol = key)

\* group.sort_values('timestamp'): ascending, rows of equal timestamp in
\* their order in the frame.
SortValues(rows) ==
    LET before(i, j) ==
            \/ rows[i].timestamp.value < rows[j].timestamp.value
            \/ rows[i].timestamp.value = rows[j].timestamp.value /\ i < j
    IN  [k \in DOMAIN rows |->
            rows[CHOOSE j \in DOMAIN rows :
                    Cardinality({i \in DOMAIN rows : before(i, j)}) = k - 1]]

\* Lines 230-265: the indicator columns of one group.
GroupIndicators(group) ==
    LET close == Column(group, "close")
        high == Column(group, "high")
        low == Column(group, "low")
        volume == Column(group, "volume")
        rsi == Rsi(close)
        macd == Macd(close)
        signal == Ewm(macd, 9)
        bb_middle == RollingMean(close, BbWindow)
        bb_upper == BbUpper(close)
        bb_lower == BbLower(close)
        bb_width == BbWidth(close)
        ema_20 == Ewm(close, 20)
        ema_50 == Ewm(close, 50)
        volume_ratio == VolumeRatio(volume)
        stochastic == Stochastic(close, high, low)
        price_change_1d == PctChange(close, 1)
        price_change_5d == PctChange(close, 5)
        price_change_10d == PctChange(close, 10)
        volatility_20 == Volatility(close)
    IN  [t \in DOMAIN group |->
            [symbol |-> group[t].symbol, timestamp |-> group[t].timestamp,
             close |-> close[t], high |-> high[t], low |-> low[t], volume |-> volume[t],
             rsi |-> rsi[t], macd |-> macd[t], macd_signal |-> signal[t],
             macd_histogram |-> Sub(macd[t], signal[t]),
             bb_middle |-> bb_middle[t], bb_upper |-> bb_upper[t],
             bb_lower |-> bb_lower[t], bb_width |-> bb_width[t],
             bb_position |-> Div(Sub(close[t], bb_lower[t]), Sub(bb_upper[t], bb_lower[t])),
             ema_20 |-> ema_20[t], ema_50 |-> ema_50[t],
             ema_trend |-> IF Gt(ema_20[t], ema_50[t]) THEN 1 ELSE 0,
             volume_ratio |-> volume_ratio[t], stochastic |-> stochastic[t],
             price_change_1d |-> price_change_1d[t],
             price_change_5d |-> price_change_5d[t],
             price_change_10d |-> price_change_10d[t],
             volatility_20 |-> volatility_20[t]]]

\* pd.concat(result_dfs, ignore_index=True).
RECURSIVE Concat(_)
Concat(frames) == IF frames = <<>> THEN <<>> ELSE Head(frames) \o Concat(Tail(frames))

AddTechnicalIndicators(df) ==
    LET keys == GroupKeys(df)
    IN  Concat([g \in DOMAIN keys |-> GroupIndicators(SortValues(GroupRows(df, keys[g])))])

\* close.pct_change(forward_days).shift(-forward_days): the return from the
\* row's close to the close forward_days rows later, NaN for the last rows.
FutureReturn_past(close, forward_days) == PctChange(close, forward_days)
FutureReturn(close, forward_days) ==
    [t \in DOMAIN close |->
        IF t + forward_days \in DOMAIN close
        THEN PctChange(close, forward_days)[t + forward_days] ELSE NaN]

\* np.select([future_return > buy, future_return < sell], [1, -1], default=0).
GroupLabels(group, forward_days, buy_threshold, sell_threshold) ==
    LET future_return == FutureReturn(Column(group, "close"), forward_days)
    IN  [t \in DOMAIN group |->
            [c \in DOMAIN group[t] \cup {"future_return", "label"} |->
                IF c = "future_return" THEN future_return[t]
                ELSE IF c = "label"
                THEN (IF Gt(future_return[t], buy_threshold) THEN 1
                      ELSE IF Lt(future_return[t], sell_threshold) THEN -1 ELSE 0)
                ELSE group[t][c]]]

CreateLabels(df, forward_days, buy_threshold, sell_threshold) ==
    LET keys == GroupKeys(df)
    IN  Concat([g \in DOMAIN keys |->
                  GroupLabels(SortValues(GroupRows(df, keys[g])),
                              forward_days, buy_threshold, sell_threshold)])

\* df['news_sentiment'] = 0.0
WithNewsSentiment(df) ==
    [j \in DOMAIN df |->
        [c \in DOMAIN df[j] \cup {"news_sentiment"} |->
            IF c = "news_sentiment" THEN Num(0) ELSE df[j][c]]]

\* df.dropna(subset=...): a row is dropped when one of the columns is NaN
\* (an infinity is not missing).
IntegerColumns == {"ema_trend", "label"}
IsNA(row, c) == c \notin IntegerColumns /\ row[c] = NaN
DropNA(df, subset) ==
    SelectSeq(df, LAMBDA row : \A c \in subset : ~IsNA(row, c))

TrainerAddTechnicalIndicators ==
    /\ pc = "train"
    /\ pc' = "indicators"
    /\ call' = "add_technical_indicators"
    /\ \E df \in TrainingFrames :
          /\ request' = [df |-> df]
          /\ features_list' = AddTechnicalIndicators(df)
    /\ UNCHANGED <<response, timestamp, feature_i, score, reasoning_parts, signals,
                   bars_dict>>
    /\ UNCHANGED classifierVars

\* create_labels with its default thresholds (main(), line 632, passes
\* forward_days=1, buy_threshold=0.02, sell_threshold=-0.02); forward_days
\* is the caller's.
ForwardDays == {1, 2}
TrainerCreateLabels ==
    /\ pc = "indicators"
    /\ pc' = "labels"
    /\ call' = "create_labels"
    /\ \E forward_days \in ForwardDays :
          /\ request' = [df |-> request.df, forward_days |-> forward_days]
          /\ features_list' = CreateLabels(features_list, forward_days,
                                           Rat(2, 100), Rat(-2, 100))
    /\ UNCHANGED <<response, timestamp, feature_i, score, reasoning_parts,
                   signals, bars_dict>>
    /\ UNCHANGED classifierVars

\* prepare_features: the frame gets the news_sentiment column, the rows
\* without NaN in the feature columns and the label become X and y.
TrainerPrepareFeatures ==
    /\ pc = "labels"
    /\ pc' = "prepared"
    /\ call' = "prepare_features"
    /\ features_list' = WithNewsSentiment(features_list)
    /\ LET df_clean == DropNA(features_list', Range(TrainedColumns) \cup {"label"})
       IN  response' =
               [outcome |-> "returned", status |-> 0,
                feature_columns |-> TrainedColumns,
                X |-> Select([rows |-> df_clean], TrainedColumns),
                y |-> Column(df_clean, "label"),
                df_clean |-> df_clean]
    /\ UNCHANGED <<request, timestamp, feature_i, score, reasoning_parts, signals,
                   bars_dict>>
    /\ UNCHANGED classifierVars

\* The trainer before its first step, or the provider before a call of
\* calculate_features.
InitTraining == pc \in {"train", "provider"} /\ InitIdle

NextTraining ==
    \/ TrainerAddTechnicalIndicators
    \/ TrainerCreateLabels
    \/ TrainerPrepareFeatures
    \/ CalculateFeaturesCall

SpecTraining == InitTraining /\ [][NextTraining]_vars

(***************************************************************************)
(* ml-service-render.py: the mock service.  MarketFeatures has a default   *)
(* for every field but symbol and no bounds; MODEL is a MockModel that     *)
(* looks at rsi only.                                                      *)
(***************************************************************************)
RenderDefaults(raw) ==
    [key \in DOMAIN AAPL_record |->
        IF key \in DOMAIN raw THEN raw[key]
        ELSE CASE key = "rsi" -> Num(50)
               [] key = "bb_width" -> Rat(2, 100)
               [] key = "bb_position" -> Rat(5, 10)
               [] key = "ema_trend" -> 0
               [] key = "volume_ratio" -> Num(1)
               [] key = "stochastic" -> Num(50)
               [] key = "volatility_20" -> Rat(2, 100)
               [] key = "price" -> Num(100)
               [] OTHER -> Num(0)]

RenderRequestValid(req) == \A j \in DOMAIN req.features : "symbol" \in DOMAIN req.features[j]

MockClasses == <<-1, 0, 1>>
MockPredict(row) ==
    IF Gt(row.rsi, Num(70)) THEN 1 ELSE IF Lt(row.rsi, Num(30)) THEN -1 ELSE 0
MockPredictProba(row) ==
    IF Gt(row.rsi, Num(70)) THEN <<Rat(1, 10), Rat(1, 10), Rat(8, 10)>>
    ELSE IF Lt(row.rsi, Num(30)) THEN <<Rat(8, 10), Rat(1, 10), Rat(1, 10)>>
    ELSE <<Rat(2, 10), Rat(6, 10), Rat(2, 10)>>

\* A record with rsi below 30, one that names its symbol only, and one
\* without a symbol (rejected by the validation).
RenderFeatures ==
    {AAPL_record, TSLA_record, [TSLA_record EXCEPT !.symbol = "NVDA", !.rsi = Num(25)],
     [symbol |-> "MSFT"], Without(AAPL_record, "symbol")}
RenderRequests ==
    {[features |-> fs, include_probabilities |-> FALSE] :
        fs \in SeqsUpTo(RenderFeatures, MaxBatch)}

RenderSignal(row, pred_class, probs, ts) ==
    LET action == ClassMap(pred_class)
    IN  [symbol |-> row.symbol,
         action |-> action,
         confidence |-> probs[Index(MockClasses, pred_class)],
         price |-> row.price,
         reasoning |-> RenderReasoning(row, action),
         indicators |-> Indicators(row),
         timestamp |-> ts]

\* The except branch, lines 183-190: whatever was appended to the local
\* list is dropped.
RenderFailure_partial(sigs, ts) ==
    [outcome |-> "http", status |-> 200, success |-> FALSE,
     signals |-> sigs, model_version |-> "error", timestamp |-> ts]
RenderFailure(sigs, ts) ==
    [outcome |-> "http", status |-> 200, success |-> FALSE,
     signals |-> <<>>, model_version |-> "error", timestamp |-> ts]

\* predict: fault = 0 is the run without an exception; fault = k is an
\* exception raised inside the try block while the k-th row is turned into
\* a signal, after the rows before it were appended.
RenderPredict ==
    /\ pc = "render"
    /\ pc' = "done"
    /\ call' = "ml-service-render.predict"
    /\ \E req \in RenderRequests, t \in Times :
          IF ~RenderRequestValid(req)
          THEN /\ request' = req
               /\ response' = ValidationError
               /\ UNCHANGED <<predictions, probabilities, signals, timestamp>>
          ELSE LET features == [j \in DOMAIN req.features |-> RenderDefaults(req.features[j])]
                   df == DataFrame(features)
               IN  /\ request' = [req EXCEPT !.features = features]
                   /\ predictions' = [j \in DOMAIN df.rows |-> MockPredict(df.rows[j])]
                   /\ probabilities' = [j \in DOMAIN df.rows |-> MockPredictProba(df.rows[j])]
                   /\ timestamp' = t
                   /\ \E fault \in 0..Len(features) :
                         /\ signals' =
                               [j \in 1..(IF fault = 0 THEN Len(features) ELSE fault - 1) |->
                                   RenderSignal(df.rows[j], predictions'[j],
                                                probabilities'[j], t)]
                         /\ response' =
                               IF fault = 0
                               THEN [outcome |-> "http", status |-> 200,
                                     success |-> TRUE, signals |-> signals',
                                     model_version |-> "mock-1.0", timestamp |-> t]
                               ELSE RenderFailure(signals', t)
    /\ UNCHANGED <<feature_i, score, reasoning_parts, MODEL, MODEL_INFO, predictor,
                   providerVars>>

(***************************************************************************)
(* The three scorer services side by side, each its own process: a         *)
(* behaviour serves one request of one of them.                            *)
(***************************************************************************)
RuleServiceReceive == call = "none" /\ SimpleReceive

InitBatch == pc \in {"idle", "startup", "render"} /\ InitIdle

NextBatch ==
    \/ RuleServiceReceive
    \/ SimpleNextFeature
    \/ SimpleRsi
    \/ SimpleMacd
    \/ SimpleBollinger
    \/ SimpleVolume
    \/ SimpleStochastic
    \/ SimpleEma
    \/ SimpleConvert
    \/ SimpleReturn
    \/ MainLoadModel
    \/ MainPredict
    \/ RenderPredict

SpecBatch == InitBatch /\ [][NextBatch]_vars


(***************************************************************************)
(* ml-service-local.py: the local service around TradingPredictor.         *)
(***************************************************************************)
LocalSymbols == {"AAPL", "TSLA"}

\* Line 30: predictor = TradingPredictor('python-functions/scalping_model_v2.pkl').
LocalStartup ==
    /\ pc = "local"
    /\ pc' = "local.idle"
    /\ call' = "ml-service-local.startup"
    /\ \E file \in Artifacts :
          /\ predictor' = LoadModel(predictor, file)
          /\ request' = [path |-> file]
    /\ UNCHANGED <<response, timestamp, feature_i, score, reasoning_parts, signals,
                   predictions, probabilities, MODEL, MODEL_INFO, providerVars>>

\* Lines 43-48.
LocalHealth ==
    /\ pc = "local.idle"
    /\ pc' = "done"
    /\ call' = "ml-service-local.health"
    /\ response' = [outcome |-> "http", status |-> 200, health |-> "healthy",
                    model_loaded |-> predictor.model # None]
    /\ UNCHANGED <<request, timestamp, feature_i, score, reasoning_parts, signals,
                   predictions, probabilities, MODEL, MODEL_INFO, predictor,
                   providerVars>>

\* Lines 82-83: except Exception catches everything raised inside the try
\* block, the HTTPException of lines 55, 64 and 70 included, and raises
\* HTTPException(500).
LocalCaught(e) == HTTPException(500, "Prediction failed")

\* Lines 53-55: an empty symbols list raises HTTPException(400) inside try.
LocalReceive ==
    /\ pc = "local.idle"
    /\ call' = "ml-service-local.predict"
    /\ \E symbols \in SeqsUpTo(LocalSymbols, MaxBatch) :
          /\ request' = [symbols |-> symbols, fetched |-> <<>>]
          /\ IF symbols = <<>>
             THEN /\ response' = LocalCaught(HTTPException(400, "No symbols provided"))
                  /\ pc' = "done"
             ELSE /\ pc' = "local.fetch"
                  /\ UNCHANGED response
    /\ UNCHANGED <<timestamp, feature_i, score, reasoning_parts, signals,
                   predictions, probabilities, MODEL, MODEL_INFO, predictor,
                   providerVars>>

\* Lines 57-64.
LocalGetLatestBars ==
    /\ pc = "local.fetch"
    /\ \E fetched \in [DOMAIN request.symbols -> FetchOutcomes] :
          /\ request' = [request EXCEPT !.fetched = fetched]
          /\ bars_dict' = GetLatestBars(request.symbols, fetched)
    /\ IF bars_dict' = <<>>
       THEN /\ response' = LocalCaught(HTTPException(404, "No market data available"))
            /\ pc' = "done"
       ELSE pc' = "local.calculate" /\ UNCHANGED response
    /\ UNCHANGED <<call, timestamp, feature_i, score, reasoning_parts, signals,
                   features_list>>
    /\ UNCHANGED classifierVars

\* Lines 66-70.
LocalCalculateFeatures ==
    /\ pc = "local.calculate"
    /\ features_list' = CalculateFeatures(bars_dict)
    /\ IF features_list' = <<>>
       THEN /\ response' = LocalCaught(HTTPException(404, "Could not calculate features"))
            /\ pc' = "done"
       ELSE pc' = "local.predict" /\ UNCHANGED response
    /\ UNCHANGED <<call, request, timestamp, feature_i, score, reasoning_parts,
                   signals, bars_dict>>
    /\ UNCHANGED classifierVars

\* Line 73: signals = predictor.predict(features).
LocalPredict ==
    /\ pc = "local.predict"
    /\ pc' = "local.respond"
    /\ Predict(features_list)
    /\ UNCHANGED <<call, request, timestamp, feature_i, score, reasoning_parts,
                   MODEL, MODEL_INFO, predictor, providerVars>>

\* Lines 75-83: the success body, or the 500 for what predict raised.
LocalRespond ==
    /\ pc = "local.respond"
    /\ pc' = "done"
    /\ response' =
          IF response.outcome = "raised"
          THEN LocalCaught(response)
          ELSE [outcome |-> "http", status |-> 200, success |-> TRUE,
                signals |-> response.signals, model_version |-> "2.0",
                timestamp |-> IF response.signals # <<>>
                              THEN response.signals[1].timestamp ELSE None]
    /\ UNCHANGED <<call, request, timestamp, feature_i, score, reasoning_parts,
                   signals, predictions, probabilities, MODEL, MODEL_INFO, predictor,
                   providerVars>>

InitLocal == pc = "local" /\ InitIdle

NextLocal ==
    \/ LocalStartup
    \/ LocalHealth
    \/ LocalReceive
    \/ LocalGetLatestBars
    \/ LocalCalculateFeatures
    \/ LocalPredict
    \/ LocalRespond

SpecLocal == InitLocal /\ [][NextLocal]_vars

(***************************************************************************)
(*                               Claims                                    *)
(***************************************************************************)

\* The rule-based score and confidence in integers: halves and hundredths.
Halves(x) == (2 * x.n) \div x.d
Hundredths(x) == (100 * x.n) \div x.d
AbsHalves(x) == IF Halves(x) < 0 THEN -Halves(x) ELSE Halves(x)
Min2(a, b) == IF a < b THEN a ELSE b

\* The record most recently scored by the rule-based loop, and its signal.
ScoredFeature == request.features[feature_i - 1]
ScoredSignal == signals[feature_i - 1]
JustScored == pc = "loop" /\ feature_i > 1

\* The contribution of each rule, in halves of a point, written out from
\* the specification's table (strict comparisons, 0 on a threshold).
ContributionHalves(f) ==
      (IF f.rsi.k = "fin" /\ f.rsi.n > 70 * f.rsi.d THEN -4
       ELSE IF f.rsi.k = "fin" /\ f.rsi.n < 30 * f.rsi.d THEN 4 ELSE 0)
    + (IF f.macd_histogram.k = "fin" /\ f.macd_histogram.n > 0 THEN 2
       ELSE IF f.macd_histogram.k = "fin" /\ f.macd_histogram.n < 0 THEN -2 ELSE 0)
    + (IF 10 * f.bb_position.n > 8 * f.bb_position.d THEN -2
       ELSE IF 10 * f.bb_position.n < 2 * f.bb_position.d THEN 2 ELSE 0)
    + (IF 10 * f.volume_ratio.n > 15 * f.volume_ratio.d THEN 1
       ELSE IF 10 * f.volume_ratio.n < 5 * f.volume_ratio.d THEN -1 ELSE 0)
    + (IF f.stochastic.n > 80 * f.stochastic.d THEN -2
       ELSE IF f.stochastic.n < 20 * f.stochastic.d THEN 2 ELSE 0)
    + (IF f.ema_trend = 1 THEN 1 ELSE -1)

\* C1: when the rule-based scorer has applied its six rules to a feature
\* record, the score is the sum, from 0, of the contributions of the table:
\* RSI>70 -2, RSI<30 +2; macd_histogram>0 +1, <0 -1; bb_position>0.8 -1,
\* <0.2 +1; volume_ratio>1.5 +0.5, <0.5 -0.5; stochastic>80 -1, <20 +1;
\* ema_trend==1 +0.5, otherwise -0.5; every comparison strict.
C1_ScoreIsSumOfContributions ==
    pc = "convert" =>
        /\ IsFinite(score)
        /\ score.d \in {1, 2}
        /\ Halves(score) = ContributionHalves(feature)

\* A record with rsi, bb_position, volume_ratio and stochastic exactly on a
\* threshold and a zero histogram: only the EMA rule contributes.
C1_Witness ==
    /\ pc = "convert"
    /\ feature.rsi = Num(70) /\ feature.stochastic = Num(80)
    /\ feature.bb_position = Rat(8, 10) /\ feature.volume_ratio = Rat(15, 10)
    /\ feature.macd_histogram = Num(0) /\ feature.ema_trend = 0
    /\ score = Rat(-1, 2)

\* C2: the action of a rule-based signal is buy exactly when score >= 2,
\* sell exactly when score <= -2 and hold exactly otherwise.
C2_ActionFromScore ==
    JustScored =>
        /\ ScoredSignal.action \in {"buy", "sell", "hold"}
        /\ (ScoredSignal.action = "buy") <=> (Halves(score) >= 4)
        /\ (ScoredSignal.action = "sell") <=> (Halves(score) <= -4)
        /\ (ScoredSignal.action = "hold") <=> (Halves(score) \in -3..3)

\* A score of exactly -2 is a sell.
C2_Witness ==
    JustScored /\ score = Num(-2) /\ ScoredSignal.action = "sell"

\* C3: the rule-based confidence is min(0.9, 0.6 + 0.1 * (|score| - 2)) for
\* buy and sell and 0.6 for hold; it lies in [0.6, 0.9], inside [0, 1].
C3_ConfidenceFormula ==
    JustScored =>
        LET c == ScoredSignal.confidence
        IN  /\ IsFinite(c)
            /\ 100 % c.d = 0
            /\ Hundredths(c) =
                  IF ScoredSignal.action = "hold" THEN 60
                  ELSE Min2(90, 60 + 5 * (AbsHalves(score) - 4))
            /\ Hundredths(c) \in 60..90

\* The largest score, 6, whose uncapped confidence would be 1.0.
C3_Witness ==
    /\ JustScored /\ score = Num(6)
    /\ ScoredSignal.action = "buy" /\ ScoredSignal.confidence = Rat(9, 10)

\* The TSLA record of ml-service/test_service.py.
IsTslaTestRecord(f) ==
    /\ f.rsi = Num(75) /\ f.macd_histogram = Rat(-5, 100) /\ f.ema_trend = 0
    /\ f.bb_position = Rat(85, 100) /\ f.volume_ratio = Rat(25, 10)
    /\ f.stochastic = Num(80)

\* C4 as stated: the TSLA test record scores -5, sell, confidence 0.9.
C4_Original ==
    (JustScored /\ IsTslaTestRecord(ScoredFeature)) =>
        /\ score = Num(-5)
        /\ ScoredSignal.action = "sell"
        /\ ScoredSignal.confidence = Rat(9, 10)

\* C4, amended: for the TSLA test record (RSI=75, macd_histogram=-0.05,
\* ema_trend=0, bb_position=0.85, volume_ratio=2.5, stochastic=80) the
\* rule-based scorer computes score = -4 (stochastic = 80 is not > 80 and
\* contributes 0), action = sell and confidence = min(0.9, 0.6 + 0.1*2) = 0.8.
C4_TslaRecordScore ==
    (JustScored /\ IsTslaTestRecord(ScoredFeature)) =>
        /\ score = Num(-4)
        /\ ScoredSignal.action = "sell"
        /\ ScoredSignal.confidence = Rat(8, 10)

C4_Witness ==
    /\ JustScored /\ IsTslaTestRecord(ScoredFeature)
    /\ ScoredSignal.symbol = "TSLA" /\ ScoredSignal.action = "sell"


\* The classifier-backed scoring calls, and the classifier each one used.
ScoringCalls == {"main.predict", "TradingPredictor.predict", "handler.do_POST"}
Scored == pc = "done" /\ call \in ScoringCalls

UsedClassifier ==
    CASE call = "main.predict" -> MODEL
      [] call = "TradingPredictor.predict" -> predictor.model
      [] OTHER -> request.file.data

\* The call returned signals computed by the classifier.
ProducedSignals ==
    /\ Scored
    /\ response.outcome = "returned" \/ (response.outcome = "http" /\ response.status = 200)
    /\ response.signals # <<>>

\* The call ended in an explicit error: an HTTP error status or an exception.
ExplicitError ==
    \/ response.outcome = "raised"
    \/ response.outcome = "http" /\ response.status >= 400

\* C5: in every classifier-backed scoring path the confidence of a signal is
\* the entry of the probability vector at the index of the predicted class
\* in the classifier's class list.
C5_ConfidenceIsPredictedClassProbability ==
    ProducedSignals =>
        \A j \in DOMAIN response.signals :
            response.signals[j].confidence
                = probabilities[j][Index(UsedClassifier.classes_, predictions[j])]

\* No classifier is loaded in the path the call went to.
NoClassifierLoaded ==
    CASE call = "main.predict" -> MODEL = None
      [] call = "TradingPredictor.predict" -> predictor.model = None
      [] OTHER -> LoadRaises(request.file)

\* C6: a scoring call made while no classifier is loaded ends in an explicit
\* error (HTTP error status or raised exception), never in a success
\* response and never with signals.
C6_NoClassifierIsExplicitError ==
    (Scored /\ NoClassifierLoaded) => ExplicitError

\* The loaded classifier's ordered feature-column list.
UsedFeatureColumns ==
    IF call = "main.predict" THEN MODEL_INFO.feature_columns
    ELSE predictor.feature_columns

\* Some record of the batch lacks a column of that list.
RecordLacksColumn ==
    /\ call \in {"main.predict", "TradingPredictor.predict"}
    /\ ~NoClassifierLoaded
    /\ UsedFeatureColumns # NoColumns
    /\ \E j \in DOMAIN request.features :
          ~(Range(UsedFeatureColumns) \subseteq DOMAIN request.features[j])

\* C7: classifier-backed scoring of a batch in which a record lacks a column
\* of the classifier's feature-column list fails explicitly: an error
\* outcome, no signal computed from the incomplete record.
C7_MissingColumnIsExplicitError ==
    (Scored /\ RecordLacksColumn) => ExplicitError

\* A finished call of calculate_features, its input mapping and its output.
Assembled == pc = "done" /\ call = "calculate_features"
RecordsOf(symbol) ==
    {i \in DOMAIN features_list : features_list[i].symbol = symbol}
FeatureFields ==
    {"symbol", "timestamp", "price", "rsi", "macd", "macd_histogram", "bb_width",
     "bb_position", "ema_trend", "volume_ratio", "stochastic", "price_change_1d",
     "price_change_5d", "price_change_10d", "volatility_20", "news_sentiment"}

\* C8: calculate_features returns normally; a symbol whose history has
\* fewer than 50 bars has no record in the output, a symbol with 50 or more
\* bars has exactly one, and the output holds nothing else: every entry is
\* a complete feature record of a symbol of the input.
C8_ShortHistoriesAreSkipped ==
    Assembled =>
        /\ response = Returned(features_list)
        /\ \A j \in DOMAIN bars_dict :
              Cardinality(RecordsOf(bars_dict[j].symbol))
                  = IF Len(bars_dict[j].bars) < 50 THEN 0 ELSE 1
        /\ \A i \in DOMAIN features_list :
              /\ DOMAIN features_list[i] = FeatureFields
              /\ features_list[i].symbol \in Keys(bars_dict)

\* A 10-bar history is dropped and the 50-bar history after it is kept.
C8_Witness ==
    /\ Assembled
    /\ Len(bars_dict) = 2
    /\ Len(bars_dict[1].bars) = 10
    /\ Len(bars_dict[2].bars) = 50
    /\ Len(features_list) = 1
    /\ features_list[1].symbol = bars_dict[2].symbol

\* A finished run of the pipeline that returned its signals.
PipelineReturned ==
    pc = "done" /\ call = "predict_for_symbols" /\ response.outcome = "returned"
SignalSymbols == [j \in DOMAIN response.signals |-> response.signals[j].symbol]

RECURSIVE IsSubsequence(_, _)
IsSubsequence(a, b) ==
    IF a = <<>> THEN TRUE
    ELSE IF b = <<>> THEN FALSE
    ELSE IF Head(a) = Head(b) THEN IsSubsequence(Tail(a), Tail(b))
    ELSE IsSubsequence(a, Tail(b))

\* The fetch at position j stored bars, and no later fetch replaced them.
StoredLast(j) ==
    /\ request.fetched[j].kind = "frame" /\ request.fetched[j].bars # <<>>
    /\ \A m \in DOMAIN request.symbols :
          (m > j /\ request.symbols[m] = request.symbols[j]) =>
              ~(request.fetched[m].kind = "frame" /\ request.fetched[m].bars # <<>>)

\* C9: the signals of the pipeline list the symbols in the relative order
\* of the requested symbols (a subsequence of the input), no symbol twice,
\* and they are exactly the symbols whose stored bars reach 50: failed,
\* empty and short fetches are left out.
C9_PipelineKeepsInputOrder ==
    PipelineReturned =>
        /\ IsSubsequence(SignalSymbols, request.symbols)
        /\ \A i, j \in DOMAIN SignalSymbols :
              SignalSymbols[i] = SignalSymbols[j] => i = j
        /\ \A s \in PipelineSymbols :
              s \in Range(SignalSymbols) <=>
                  \E j \in DOMAIN request.symbols :
                      /\ request.symbols[j] = s
                      /\ StoredLast(j)
                      /\ Len(request.fetched[j].bars) >= 50

\* Two symbols requested out of alphabetical order, both kept.
C9_Witness ==
    /\ PipelineReturned
    /\ request.symbols = <<"TSLA", "AAPL">>
    /\ SignalSymbols = <<"TSLA", "AAPL">>

\* C10: wherever the last element of an indicator series is undefined, the
\* record carries the documented default: 50.0 for rsi and stochastic, a
\* small positive constant for bb_width and for volatility_20, 0.0 for the
\* three price changes; ema_trend is 0 or 1.
SmallPositive(x) == Gt(x, Num(0)) /\ Lt(x, Rat(1, 10))
C10_UndefinedValuesGetDocumentedDefaults ==
    Assembled =>
        \A j \in DOMAIN bars_dict : \A i \in RecordsOf(bars_dict[j].symbol) :
            LET latest == LatestValues(bars_dict[j].bars)
                rec == features_list[i]
            IN  /\ IsNaN(latest.rsi) => rec.rsi = Num(50)
                /\ IsNaN(latest.stochastic) => rec.stochastic = Num(50)
                /\ IsNaN(latest.bb_width) => SmallPositive(rec.bb_width)
                /\ IsNaN(latest.volatility_20) => SmallPositive(rec.volatility_20)
                /\ IsNaN(latest.price_change_1d) => rec.price_change_1d = Num(0)
                /\ IsNaN(latest.price_change_5d) => rec.price_change_5d = Num(0)
                /\ IsNaN(latest.price_change_10d) => rec.price_change_10d = Num(0)
                /\ rec.ema_trend \in {0, 1}

\* The numeric fields of a feature record other than the 0/1 flag.
FloatFields == FeatureFields \ {"symbol", "timestamp", "ema_trend"}

\* C11: every numeric field of every record the assembler emits is finite,
\* never NaN and never an infinity, whatever the history of 50 or more bars
\* (zero closes, zero volume and zero price range included).
C11_EveryFieldIsFinite ==
    Assembled =>
        \A i \in DOMAIN features_list :
            /\ \A c \in FloatFields : IsFinite(features_list[i][c])
            /\ features_list[i].ema_trend \in {0, 1}

\* The label map of the specification, and the class values the classifiers
\* of the model files can emit.
Actions == {"buy", "sell", "hold"}
LabelOf(cls) == IF cls = -1 THEN "sell" ELSE IF cls = 0 THEN "hold" ELSE "buy"
EmittedClasses == Range(ThreeClasses) \cup Range(TwoClasses)

\* C12: every signal of a classifier-backed path has action buy, sell or
\* hold, the action is sell for predicted class -1, hold for 0 and buy for 1,
\* and the three paths give the same action for every class a classifier
\* can emit.
C12_ActionFollowsLabelMap ==
    /\ ProducedSignals =>
          \A j \in DOMAIN response.signals :
              /\ response.signals[j].action \in Actions
              /\ response.signals[j].action = LabelOf(predictions[j])
    /\ \A cls \in EmittedClasses :
          /\ ClassMap(cls) = PredictorAction(cls)
          /\ PredictorAction(cls) = HandlerAction(cls)

C12_Witness ==
    /\ ProducedSignals
    /\ call = "handler.do_POST"
    /\ \E j \in DOMAIN response.signals :
          predictions[j] = -1 /\ response.signals[j].action = "sell"

\* C13: in the classifier service a signal of a request with
\* include_probabilities carries one probability per class of the
\* classifier, keyed by the label of the class and equal to that class's
\* probability for the record rounded to 4 decimals, and the entry under the
\* signal's action is its confidence rounded to 4 decimals; without
\* include_probabilities the field is null.
C13_ProbabilitiesFollowLabelMap ==
    (ProducedSignals /\ call = "main.predict") =>
        \A j \in DOMAIN response.signals :
            LET signal == response.signals[j]
                classes == MODEL.classes_
            IN  IF request.include_probabilities
                THEN /\ DOMAIN signal.probabilities
                          = {LabelOf(classes[m]) : m \in DOMAIN classes}
                     /\ Cardinality(DOMAIN signal.probabilities) = Len(classes)
                     /\ \A m \in DOMAIN classes :
                           signal.probabilities[LabelOf(classes[m])]
                               = Round(probabilities[j][m], 4)
                     /\ signal.probabilities[signal.action]
                           = Round(signal.confidence, 4)
                ELSE signal.probabilities = None

\* A two-class classifier answered with a probability that rounding changes.
C13_Witness ==
    /\ ProducedSignals
    /\ call = "main.predict"
    /\ request.include_probabilities
    /\ Len(MODEL.classes_) = 2
    /\ \E j \in DOMAIN response.signals :
          /\ response.signals[j].probabilities[response.signals[j].action]
                # response.signals[j].confidence
          /\ response.signals[j].action = "hold"

\* C14: every record the assembler hands to the predictor carries every
\* column of the trainer's feature-column list, so selecting the list from
\* the assembled records never fails on a missing column, gives the values
\* in the trained order, and a predictor loaded with the trainer's file
\* never ends in a KeyError.
C14_AssembledRecordsCoverTrainedColumns ==
    (call = "predict_for_symbols" /\ features_list # <<>>) =>
        LET df == DataFrame(features_list)
        IN  /\ \A i \in DOMAIN features_list :
                  Range(TrainedColumns) \subseteq DOMAIN features_list[i]
            /\ ~SelectRaises(df, TrainedColumns)
            /\ \A i \in DOMAIN features_list, m \in DOMAIN TrainedColumns :
                  Select(df, TrainedColumns)[i][m]
                      = Cell(TrainedColumns[m], features_list[i][TrainedColumns[m]])
            /\ (pc = "done" /\ predictor.feature_columns = TrainedColumns) =>
                  response # Raised("KeyError")

\* Two assembled records went through a predictor holding the trained list.
C14_Witness ==
    /\ pc = "done"
    /\ call = "predict_for_symbols"
    /\ Len(features_list) = 2
    /\ predictor.feature_columns = TrainedColumns
    /\ response.outcome = "returned"
    /\ Len(response.signals) = 2

\* A raw record that breaks no constraint of the request model, its
\* bb_position left aside.
ValidBesideBbPosition(raw) ==
    MarketFeaturesValid([raw EXCEPT !.bb_position = Rat(5, 10)])

\* C15: a record whose bb_position lies outside [0, 1] is valid input: a
\* request whose records are valid in every other field is accepted and
\* answered with one signal per record, also when the close lies outside the
\* Bollinger bands.
C15_BandBreakIsScored ==
    (/\ pc = "done"
     /\ call = "simple-ml-service.predict"
     /\ \A j \in DOMAIN request.features : ValidBesideBbPosition(request.features[j]))
        => /\ response.status = 200
           /\ Len(response.signals) = Len(request.features)

\* The denominator of the stochastic at the last bar: the highest high less
\* the lowest low of the last 14 bars.
StochasticRange(bars) ==
    Sub(RollingMax(Column(bars, "high"), StochWindow)[Len(bars)],
        RollingMin(Column(bars, "low"), StochWindow)[Len(bars)])

\* C16: when the highest high equals the lowest low over the last 14 bars
\* the record's stochastic is 50.0, wherever the last close lies (on the flat
\* level or off it).
C16_ZeroRangeStochasticIsNeutral ==
    Assembled =>
        \A j \in DOMAIN bars_dict : \A i \in RecordsOf(bars_dict[j].symbol) :
            StochasticRange(bars_dict[j].bars) = Num(0)
                => features_list[i].stochastic = Num(50)

\* The average loss and the average gain of the 14-bar RSI window at the
\* last bar.
AverageLoss(bars) ==
    RollingMean(Losses(Diff(Column(bars, "close"))), RsiWindow)[Len(bars)]
AverageGain(bars) ==
    RollingMean(Gains(Diff(Column(bars, "close"))), RsiWindow)[Len(bars)]

\* C17: whenever the average loss of the RSI window is zero the record's
\* rsi is 100, both when the average gain is positive and when the window
\* is flat (average gain zero as well).
C17_ZeroLossRsiIsMaximal ==
    Assembled =>
        \A j \in DOMAIN bars_dict : \A i \in RecordsOf(bars_dict[j].symbol) :
            AverageLoss(bars_dict[j].bars) = Num(0)
                => features_list[i].rsi = Num(100)

\* C18: the rsi and the stochastic of every record the assembler emits lie
\* in [0, 100], for every history of 50 bars or more, bars whose close lies
\* outside their own high-low range included.
C18_OscillatorsStayInRange ==
    Assembled =>
        \A i \in DOMAIN features_list :
            /\ InRange(features_list[i].rsi, Num(0), Num(100))
            /\ InRange(features_list[i].stochastic, Num(0), Num(100))

\* A finished composition: the record, the clauses and the reasoning text.
IsComposed == pc = "composed"
ComposedRecord == request.features[1]

\* The clauses each implementation can write, by condition group in the
\* declared order: RSI, MACD/EMA momentum, Bollinger, volume, stochastic.
ClauseGroups(f) ==
    LET rsi == FloatStr(Round(f.rsi, 2))
        macd == FloatStr(Round(f.macd, 4))
        bb == FixedStr(Mul(Round(f.bb_position, 3), Num(100)), 1) \o "%"
        vol == FloatStr(Round(f.volume_ratio, 2))
        stoch == FloatStr(Round(f.stochastic, 2))
    IN  << {"Overbought conditions (RSI " \o rsi \o ")",
            "Oversold conditions (RSI " \o rsi \o ")",
            "Neutral RSI (" \o rsi \o ")",
            "Overbought (RSI>70)", "Oversold (RSI<30)"},
           {"Bullish momentum (MACD " \o macd \o ", EMA trend up)",
            "Bearish momentum (MACD " \o macd \o ", EMA trend down)",
            "Positive MACD (" \o macd \o ")", "Negative MACD (" \o macd \o ")",
            "Bullish momentum", "Bearish momentum"},
           {"Near upper Bollinger Band (" \o bb \o ")",
            "Near lower Bollinger Band (" \o bb \o ")",
            "Mid-range Bollinger position (" \o bb \o ")",
            "Near upper Bollinger Band", "Near lower Bollinger Band",
            "Near upper BB", "Near lower BB"},
           {"High volume (" \o vol \o "x average)",
            "Low volume (" \o vol \o "x average)",
            "Normal volume (" \o vol \o "x average)"},
           {"Overbought stochastic (" \o stoch \o ")",
            "Oversold stochastic (" \o stoch \o ")"} >>

\* The clauses come from groups of strictly increasing position.
InGroupOrder(parts, groups) ==
    \E g \in [DOMAIN parts -> DOMAIN groups] :
        /\ \A m \in DOMAIN parts : parts[m] \in groups[g[m]]
        /\ \A m, n \in DOMAIN parts : m < n => g[m] < g[n]

\* RSI oversold, bearish MACD with bearish EMA, close near the lower band.
OversoldBearishLower(f) ==
    /\ Lt(f.rsi, Num(30))
    /\ Lt(f.macd_histogram, Num(0)) /\ f.ema_trend = 0
    /\ Lt(f.bb_position, Rat(1, 10))

\* C19: every composer writes its clauses in the order RSI, MACD/EMA
\* momentum, Bollinger, volume, stochastic, at most one clause per group,
\* joined with "; "; for a record that is RSI-oversold, bearish in MACD and
\* EMA and near the lower band the first three clauses are the oversold,
\* the bearish-momentum and the lower-band clause, in that order.
C19_ClausesInDeclaredOrder ==
    IsComposed =>
        LET groups == ClauseGroups(ComposedRecord)
        IN  /\ InGroupOrder(reasoning_parts, groups)
            /\ reasoning_parts # <<>> =>
                  response.reasoning = Join("; ", reasoning_parts)
            /\ OversoldBearishLower(ComposedRecord) =>
                  /\ Len(reasoning_parts) >= 3
                  /\ reasoning_parts[1] \in groups[1]
                  /\ reasoning_parts[2] \in groups[2]
                  /\ reasoning_parts[3] \in groups[3]

\* The classifier service composed all five groups for such a record.
C19_Witness ==
    /\ IsComposed
    /\ call = "main.predict"
    /\ OversoldBearishLower(ComposedRecord)
    /\ Len(reasoning_parts) = 5
    /\ response.reasoning =
          "Oversold conditions (RSI 25.0); "
          \o "Bearish momentum (MACD -0.02, EMA trend down); "
          \o "Near lower Bollinger Band (5.0%); "
          \o "Low volume (0.4x average); Oversold stochastic (10.0)"

\* The generic reasoning of a signal: its action and its confidence as a
\* percentage.
GenericReasoning(action, confidence) ==
    "ML " \o action \o " signal (confidence: "
    \o FixedStr(Mul(confidence, Num(100)), 1) \o "%)"

\* C20: when no condition of the checklist holds for a record the reasoning
\* is "ML {action} signal (confidence: {pct})" with the signal's own action
\* and confidence; when a condition holds the reasoning is not that string.
C20_FallbackIsGenericReasoning ==
    IsComposed =>
        IF reasoning_parts = <<>>
        THEN response.reasoning = GenericReasoning(request.action, request.confidence)
        ELSE response.reasoning # GenericReasoning(request.action, request.confidence)

\* The clause of each rule for a record, in the order RSI, MACD, Bollinger,
\* volume, stochastic, EMA ("" where the rule writes nothing), and the
\* clauses written.
ExpectedClauses(f) ==
    << IF Gt(f.rsi, Num(70)) THEN "Overbought (RSI>70)"
       ELSE IF Lt(f.rsi, Num(30)) THEN "Oversold (RSI<30)" ELSE "Neutral RSI",
       IF Gt(f.macd_histogram, Num(0)) THEN "Bullish MACD"
       ELSE IF Lt(f.macd_histogram, Num(0)) THEN "Bearish MACD" ELSE "",
       IF Gt(f.bb_position, Rat(8, 10)) THEN "Near upper BB"
       ELSE IF Lt(f.bb_position, Rat(2, 10)) THEN "Near lower BB" ELSE "",
       IF Gt(f.volume_ratio, Rat(15, 10)) THEN "High volume"
       ELSE IF Lt(f.volume_ratio, Rat(5, 10)) THEN "Low volume" ELSE "",
       IF Gt(f.stochastic, Num(80)) THEN "Overbought Stoch"
       ELSE IF Lt(f.stochastic, Num(20)) THEN "Oversold Stoch" ELSE "",
       IF f.ema_trend = 1 THEN "Bullish EMA" ELSE "Bearish EMA" >>
IsClause(c) == c # ""
ExpectedParts(f) == SelectSeq(ExpectedClauses(f), IsClause)

\* The action, confidence and reasoning of a record as a function of the
\* record alone.
Verdict(f) ==
    LET halves == ContributionHalves(f)
        action == IF halves >= 4 THEN "buy" ELSE IF halves <= -4 THEN "sell" ELSE "hold"
    IN  [action |-> action,
         confidence |-> IF action = "hold" THEN Rat(60, 100)
                        ELSE Rat(Min2(90, 60 + 5 * (AbsInt(halves) - 4)), 100),
         reasoning |-> Join("; ", ExpectedParts(f))]
VerdictOf(signal) ==
    [action |-> signal.action, confidence |-> signal.confidence,
     reasoning |-> signal.reasoning]

C22_BatchSharesOneTimestamp ==
    (ProducedSignals /\ call \in {"main.predict", "TradingPredictor.predict"}) =>
        /\ \A i, j \in DOMAIN response.signals :
              response.signals[i].timestamp = response.signals[j].timestamp
        /\ "timestamp" \in DOMAIN response =>
              \A j \in DOMAIN response.signals :
                  response.signals[j].timestamp = response.timestamp

\* The rows of one symbol in a frame, in frame order, and the frame without
\* the rows of the other symbols.
RowsOfSymbol(df, symbol) == SelectSeq(df, LAMBDA row : row.symbol = symbol)
TrainingSymbols == {request.df[j].symbol : j \in DOMAIN request.df}

\* C23: what the batch computes for a symbol is what it computes for that
\* symbol alone: the assembler's record of a symbol is the record of the
\* one-symbol mapping, and the trainer's indicator rows and labels of a
\* symbol are those of the frame holding that symbol's bars only.
C23_SymbolsAreIndependent ==
    /\ Assembled =>
          \A j \in DOMAIN bars_dict :
              RowsOfSymbol(features_list, bars_dict[j].symbol)
                  = CalculateFeatures(<<bars_dict[j]>>)
    /\ pc = "indicators" =>
          \A s \in TrainingSymbols :
              RowsOfSymbol(features_list, s)
                  = AddTechnicalIndicators(RowsOfSymbol(request.df, s))
    /\ pc = "labels" =>
          \A s \in TrainingSymbols :
              RowsOfSymbol(features_list, s)
                  = CreateLabels(AddTechnicalIndicators(RowsOfSymbol(request.df, s)),
                                 request.forward_days, Rat(2, 100), Rat(-2, 100))

\* Two symbols with different bars were labelled in one frame.
C23_Witness ==
    /\ pc = "labels"
    /\ TrainingSymbols = {"AAPL", "TSLA"}
    /\ \E i, j \in DOMAIN features_list :
          /\ features_list[i].symbol = "AAPL" /\ features_list[j].symbol = "TSLA"
          /\ features_list[i].timestamp = features_list[j].timestamp
          /\ features_list[i].label = 1 /\ features_list[j].label = -1
          /\ features_list[i].rsi # features_list[j].rsi

\* The return from a row's close to the close forward_days rows later.
ReturnAhead(rows, t, forward_days) ==
    Sub(Div(rows[t + forward_days].close, rows[t].close), Num(1))
HasAllFeatures(row) == \A c \in Range(TrainedColumns) \ {"ema_trend"} : row[c] # NaN

\* C24: every labelled row has a label in {-1, 0, 1}: 1 exactly when the
\* return from its close to the close forward_days rows later of the same
\* symbol is above 0.02, -1 exactly when it is below -0.02, 0 otherwise; the
\* last forward_days rows of a symbol get 0; prepare_features keeps exactly
\* the rows with every feature column present, so a row without a forward
\* bar stays in the training set; no assembled live record has a label.
C24_LabelsFollowFutureReturn ==
    /\ pc \in {"labels", "prepared"} =>
          \A s \in TrainingSymbols :
              LET rows == RowsOfSymbol(features_list, s)
                  forward_days == request.forward_days
              IN  \A t \in DOMAIN rows :
                      /\ rows[t].label \in {-1, 0, 1}
                      /\ t + forward_days <= Len(rows) =>
                            LET ret == ReturnAhead(rows, t, forward_days)
                            IN  /\ rows[t].label = 1 <=> Gt(ret, Rat(2, 100))
                                /\ rows[t].label = -1 <=> Lt(ret, Rat(-2, 100))
                      /\ t + forward_days > Len(rows) => rows[t].label = 0
    /\ pc = "prepared" =>
          /\ response.df_clean = SelectSeq(features_list, HasAllFeatures)
          /\ response.y = Column(response.df_clean, "label")
    /\ Assembled => \A j \in DOMAIN features_list : "label" \notin DOMAIN features_list[j]

\* A symbol's last row, without a forward bar, is labelled 0 and kept
\* beside a kept row labelled from a rise and one labelled from a fall.
C24_Witness ==
    /\ pc = "prepared"
    /\ request.forward_days = 1
    /\ \E s \in TrainingSymbols :
          LET rows == RowsOfSymbol(features_list, s)
              kept == RowsOfSymbol(response.df_clean, s)
          IN  /\ rows[Len(rows)].label = 0
              /\ kept # <<>>
              /\ kept[Len(kept)] = rows[Len(rows)]
              /\ \E t \in DOMAIN kept : kept[t].label # 0
    /\ \E j \in DOMAIN features_list : features_list[j].label = 1
    /\ \E j \in DOMAIN features_list : features_list[j].label = -1

BatchCalls == {"main.predict", "simple-ml-service.predict", "ml-service-render.predict"}
BatchSucceeded == response.outcome = "http" /\ response.status = 200 /\ response.success
BatchSignals == IF "signals" \in DOMAIN response THEN response.signals ELSE <<>>

\* C25: a finished call of one of the three scorer services either succeeded
\* with one signal per input record, at the record's index and with its
\* symbol, or carries no signal at all: HTTP 500 (or 422, 503) without a
\* signals list in the classifier and rule-based services, success = false
\* with an empty list in the mock service.
C25_BatchIsAllOrNothing ==
    (pc = "done" /\ call \in BatchCalls) =>
        IF BatchSucceeded
        THEN /\ Len(response.signals) = Len(request.features)
             /\ \A j \in DOMAIN response.signals :
                    response.signals[j].symbol = request.features[j].symbol
        ELSE /\ BatchSignals = <<>>
             /\ IF call = "ml-service-render.predict"
                THEN response.status = 422 \/ (response.status = 200 /\ ~response.success)
                ELSE response.status \in {422, 500, 503}

\* The mock service failed on the second record after it had built the
\* signal of the first.
C25_Witness ==
    /\ pc = "done"
    /\ call = "ml-service-render.predict"
    /\ Len(request.features) = 2
    /\ Len(signals) = 1
    /\ ~BatchSucceeded
    /\ response.signals = <<>>

\* C26: when load_model returns False the predictor is unchanged: after a
\* failed first load of a fresh predictor, model, model_data and
\* feature_columns are still None.
C26_FailedLoadLeavesPredictorUnchanged ==
    (/\ pc = "predictor"
     /\ call = "TradingPredictor.load_model"
     /\ response = Returned(<<FALSE>>))
        => predictor = [model_data |-> None, model |-> None,
                        feature_columns |-> NoColumns]

\* C27: predict_for_symbols goes on to fetch bars only with a model loaded
\* in the predictor: download_model_from_supabase returns True only if the
\* downloaded artifact was loaded, otherwise 'Could not load model' is
\* raised.
C27_PipelineProceedsOnlyWithModel ==
    (call = "predict_for_symbols" /\ pc \in {"fetch", "calculate", "predict"})
        => (predictor.model # None /\ predictor.feature_columns # NoColumns)

\* C28: a finished /predict call of the local service answers 400 for an
\* empty symbols list, 404 when no bars were fetched, 404 when no feature
\* record was assembled, and 500 in none of these cases.
C28_ClientErrorsKeepTheirStatus ==
    (call = "ml-service-local.predict" /\ pc = "done") =>
        /\ request.symbols = <<>> => response.status = 400
        /\ (request.symbols # <<>> /\ bars_dict = <<>>) => response.status = 404
        /\ (bars_dict # <<>> /\ features_list = <<>>) => response.status = 404
        /\ response.status = 500 =>
              (request.symbols # <<>> /\ bars_dict # <<>> /\ features_list # <<>>)

\* The weight, in halves of a point, that goes with each clause, and the
\* rule (1 RSI, 2 MACD, 3 Bollinger, 4 volume, 5 stochastic, 6 EMA) it
\* belongs to.
ClauseWeightHalves(clause) ==
    CASE clause = "Overbought (RSI>70)" -> -4
      [] clause = "Oversold (RSI<30)" -> 4
      [] clause = "Bullish MACD" -> 2
      [] clause = "Bearish MACD" -> -2
      [] clause = "Near upper BB" -> -2
      [] clause = "Near lower BB" -> 2
      [] clause = "High volume" -> 1
      [] clause = "Low volume" -> -1
      [] clause = "Overbought Stoch" -> -2
      [] clause = "Oversold Stoch" -> 2
      [] clause = "Bullish EMA" -> 1
      [] clause = "Bearish EMA" -> -1
      [] OTHER -> 0
ClauseRule(clause) ==
    CASE clause \in {"Overbought (RSI>70)", "Oversold (RSI<30)", "Neutral RSI"} -> 1
      [] clause \in {"Bullish MACD", "Bearish MACD"} -> 2
      [] clause \in {"Near upper BB", "Near lower BB"} -> 3
      [] clause \in {"High volume", "Low volume"} -> 4
      [] clause \in {"Overbought Stoch", "Oversold Stoch"} -> 5
      [] clause \in {"Bullish EMA", "Bearish EMA"} -> 6
      [] OTHER -> 0
RECURSIVE WeightOfParts(_)
WeightOfParts(parts) ==
    IF parts = <<>> THEN 0
    ELSE ClauseWeightHalves(Head(parts)) + WeightOfParts(Tail(parts))
RulesDone ==
    CASE pc = "rsi" -> 0 [] pc = "macd" -> 1 [] pc = "bb" -> 2 [] pc = "volume" -> 3
      [] pc = "stoch" -> 4 [] pc = "ema" -> 5 [] OTHER -> 6
ClausesOfRule(parts, r) == {i \in DOMAIN parts : ClauseRule(parts[i]) = r}

\* C29: in the rule-based scorer the reasoning mirrors the score.  After
\* every rule the score is the sum of the weights of the clauses appended so
\* far, the clauses stand in the order RSI, MACD, Bollinger, volume,
\* stochastic, EMA with at most one clause per rule, and 'Neutral RSI' is
\* the only clause of weight zero; after the six rules there is exactly one
\* RSI clause and exactly one EMA clause, 2 to 6 clauses in all, and the
\* signal's reasoning is their '; '-join.
C29_ReasoningMirrorsScore ==
    /\ pc \in {"rsi", "macd", "bb", "volume", "stoch", "ema", "convert"} =>
          /\ score.d \in {1, 2}
          /\ Halves(score) = WeightOfParts(reasoning_parts)
          /\ \A i \in DOMAIN reasoning_parts :
                /\ ClauseRule(reasoning_parts[i]) \in 1..RulesDone
                /\ ClauseWeightHalves(reasoning_parts[i]) = 0
                      => reasoning_parts[i] = "Neutral RSI"
          /\ \A i, j \in DOMAIN reasoning_parts :
                i < j => ClauseRule(reasoning_parts[i]) < ClauseRule(reasoning_parts[j])
    /\ pc = "convert" =>
          /\ Cardinality(ClausesOfRule(reasoning_parts, 1)) = 1
          /\ Cardinality(ClausesOfRule(reasoning_parts, 6)) = 1
          /\ Len(reasoning_parts) \in 2..6
    /\ JustScored =>
          /\ ScoredSignal.reasoning = Join("; ", reasoning_parts)
          /\ ScoredSignal.reasoning # ""

\* Six clauses, the first of them the weightless 'Neutral RSI', and a
\* non-zero score.
C29_Witness ==
    /\ pc = "convert"
    /\ Len(reasoning_parts) = 6
    /\ reasoning_parts[1] = "Neutral RSI"
    /\ Halves(score) # 0

MainRsiClauses(f) == ClauseGroups(f)[1] \ {"Overbought (RSI>70)", "Oversold (RSI<30)"}
ComposedRow == DataFrame(FeaturesData(ParseFeatures(<<ComposedRecord>>))).rows[1]

\* C30: in the classifier service the reasoning of a validated record
\* starts with one RSI clause (overbought, oversold or neutral) and has no
\* second one, so it is never the generic fallback, and it is the same text
\* for every class and probability the classifier may return for the record.
C30_ReasoningStartsWithRsiClause ==
    (IsComposed /\ call = "main.predict" /\ MarketFeaturesValid(ComposedRecord)) =>
        /\ reasoning_parts # <<>>
        /\ reasoning_parts[1] \in MainRsiClauses(ComposedRecord)
        /\ \A m \in DOMAIN reasoning_parts :
              m > 1 => reasoning_parts[m] \notin ClauseGroups(ComposedRecord)[1]
        /\ response.reasoning = Join("; ", reasoning_parts)
        /\ response.reasoning # GenericReasoning(request.action, request.confidence)
        /\ \A out \in ComposerPredictions :
              MainReasoning(ComposedRow, ClassMap(out.pred), out.confidence)
                  = response.reasoning

\* A record with rsi on the threshold 70 and no other condition holding:
\* the neutral RSI clause is the whole reasoning.
C30_Witness ==
    /\ IsComposed
    /\ call = "main.predict"
    /\ ComposedRecord.rsi = Num(70)
    /\ request.action = "buy"
    /\ response.reasoning = "Neutral RSI (70.0)"

InitClassifier == pc = "startup" /\ InitIdle

NextClassifier ==
    \/ MainLoadModel
    \/ MainPredict
    \/ PredictorLoadModel
    \/ PredictorPredict
    \/ HandlerPost

SpecClassifier == InitClassifier /\ [][NextClassifier]_vars

=============================================================================
